---- MODULE Spec2Model ----
(***************************************************************************)
(* Model of src/app.py: the diff-to-record pipeline (to_lines,             *)
(* unified_diff_text, parse_unified_diff, simple_heuristics,               *)
(* similarity_scores, make_change_record) and the JSONL sink (save_jsonl). *)
(*                                                                         *)
(* A Python str is a sequence of one-character strings; a list of str is a *)
(* sequence of such sequences.                                             *)
(***************************************************************************)
EXTENDS Integers, Sequences, FiniteSets, TLC

VARIABLES
    pc,         \* the phase of the run
    unified,    \* parse_unified_diff: the argument `unified`
    hunks,      \* parse_unified_diff: the returned list / simple_heuristics: the argument
    heuristics, \* simple_heuristics: the returned dict
    left_text,  \* make_change_record: the arguments
    right_text,
    n_context,
    strip_ws,
    rec,        \* make_change_record: the returned record
    clock,      \* the wall clock, in seconds
    made,       \* the calls of make_change_record so far: clock, uuid and id of each
    target,     \* save_jsonl: the content of the file at `path`
    saved,      \* the records passed to save_jsonl so far, in order
    writers     \* the callers of save_jsonl: where each is, and what it has still to write

vars == <<pc, unified, hunks, heuristics, left_text, right_text, n_context, strip_ws,
          rec, clock, made, target, saved, writers>>

parseVars == <<unified, hunks, heuristics>>
recordVars == <<left_text, right_text, n_context, strip_ws, rec>>
idVars == <<clock, made>>
saveVars == <<target, saved, writers>>

-----------------------------------------------------------------------------
(* Characters and str primitives                                           *)

NL == "\n"
CR == "\r"
TAB == "\t"
FF == "\f"
Digit == {"0", "1", "2", "3", "4", "5", "6", "7", "8", "9"}

RECURSIVE Concat(_)
\* "".join(parts)
Concat(parts) ==
    IF parts = <<>> THEN <<>> ELSE Head(parts) \o Concat(Tail(parts))

RECURSIVE Join(_, _)
\* sep.join(parts)
Join(sep, parts) ==
    IF parts = <<>> THEN <<>>
    ELSE IF Len(parts) = 1 THEN parts[1]
    ELSE parts[1] \o sep \o Join(sep, Tail(parts))

\* s.startswith(p)
startswith(s, p) == Len(p) <= Len(s) /\ SubSeq(s, 1, Len(p)) = p

\* s[1:] and friends: the characters of s from 1-based position i on
From(s, i) == SubSeq(s, i, Len(s))

\* str.splitlines(): a line ends at "\n", at "\r", at "\r\n" (one boundary)
\* and at "\f" (as at the other boundary characters of str.splitlines, which
\* are not written here); a text that ends with a boundary has no empty
\* last line.

\* a line boundary ends at position i of s
IsBreak(s, i) == s[i] \in {NL, FF} \/ (s[i] = CR /\ ~(i < Len(s) /\ s[i + 1] = NL))

\* the positions where the line boundaries of s end, in order
BreakEnds(s) ==
    LET AtBreak(i) == IsBreak(s, i)
    IN  SelectSeq([i \in 1..Len(s) |-> i], AtBreak)

\* the last position of the line that the boundary ending at e closes
ContentEnd(s, e) == IF s[e] = NL /\ e > 1 /\ s[e - 1] = CR THEN e - 2 ELSE e - 1

\* the lines of s, its boundaries ending at the positions ends
LinesAt(s, ends) ==
    [k \in 1..(Len(ends) + (IF ends = <<>> \/ ends[Len(ends)] < Len(s)
                            THEN (IF s = <<>> THEN 0 ELSE 1) ELSE 0)) |->
        SubSeq(s, IF k = 1 THEN 1 ELSE ends[k - 1] + 1,
                  IF k <= Len(ends) THEN ContentEnd(s, ends[k]) ELSE Len(s))]

splitlines(s) == LinesAt(s, BreakEnds(s))

UpperSeq == <<"A", "B", "C", "D", "E", "F", "G", "H", "I", "J", "K", "L", "M", "N", "O", "P", "Q", "R", "S", "T", "U", "V", "W", "X", "Y", "Z">>
LowerSeq == <<"a", "b", "c", "d", "e", "f", "g", "h", "i", "j", "k", "l", "m", "n", "o", "p", "q", "r", "s", "t", "u", "v", "w", "x", "y", "z">>
\* printable ASCII characters in code point order (sorted() compares by it)
AsciiSeq ==
    <<" ", "!", "\"", "#", "$", "%", "&", "'", "(", ")", "*", "+", ",", "-", ".", "/",
      "0", "1", "2", "3", "4", "5", "6", "7", "8", "9", ":", ";", "<", "=", ">", "?", "@",
      "A", "B", "C", "D", "E", "F", "G", "H", "I", "J", "K", "L", "M", "N", "O",
      "P", "Q", "R", "S", "T", "U", "V", "W", "X", "Y", "Z", "[", "\\", "]", "^", "_",
      "a", "b", "c", "d", "e", "f", "g", "h", "i", "j", "k", "l", "m", "n", "o",
      "p", "q", "r", "s", "t", "u", "v", "w", "x", "y", "z", "{", "|", "}", "~">>
Letter == {UpperSeq[i] : i \in 1..26} \cup {LowerSeq[i] : i \in 1..26}
\* \w of the re module
IsWordChar(c) == c \in Letter \cup Digit \cup {"_"}
\* \s of the re module
IsSpace(c) == c \in {" ", TAB, NL, CR, FF}
IsDigit(c) == c \in Digit

\* the number of characters of s from position i on up to the first of the
\* positions stops (the positions from i on where the run ends)
RunUpTo(s, i, stops) ==
    IF stops = {} THEN (IF i <= Len(s) THEN Len(s) - i + 1 ELSE 0)
    ELSE (CHOOSE j \in stops : \A k \in stops : j <= k) - i

LowerChar(c) ==
    IF \E i \in 1..26 : UpperSeq[i] = c
    THEN LowerSeq[CHOOSE i \in 1..26 : UpperSeq[i] = c]
    ELSE c
\* s.lower()
lower(s) == [i \in 1..Len(s) |-> LowerChar(s[i])]

\* sub in s
Contains(s, sub) ==
    \E i \in 1..(Len(s) - Len(sub) + 1) : SubSeq(s, i, i + Len(sub) - 1) = sub

\* \b of the re module at the gap before position i of s
AtWordBoundary(s, i) ==
    (i > 1 /\ IsWordChar(s[i - 1])) # (i <= Len(s) /\ IsWordChar(s[i]))

\* re.search(r"\bw\b", s) for a literal w
SearchWord(s, w) ==
    \E i \in 1..(Len(s) - Len(w) + 1) :
        /\ AtWordBoundary(s, i)
        /\ SubSeq(s, i, i + Len(w) - 1) = w
        /\ AtWordBoundary(s, i + Len(w))

Ord(c) == CHOOSE i \in 1..Len(AsciiSeq) : AsciiSeq[i] = c
RECURSIVE StrLess(_, _)
\* a < b for two str
StrLess(a, b) ==
    IF b = <<>> THEN FALSE
    ELSE IF a = <<>> THEN TRUE
    ELSE IF a[1] = b[1] THEN StrLess(Tail(a), Tail(b))
    ELSE Ord(a[1]) < Ord(b[1])

\* min(S) for a non-empty set of str
MinStr(S) == CHOOSE x \in S : \A y \in S \ {x} : StrLess(x, y)

RECURSIVE SortedOfSet(_)
\* sorted(S) for a set of str
SortedOfSet(S) ==
    IF S = {} THEN <<>> ELSE <<MinStr(S)>> \o SortedOfSet(S \ {MinStr(S)})

Range(f) == {f[i] : i \in DOMAIN f}

\* the length of the longest run of digits of s that starts at position i
DigitRun(s, i) == RunUpTo(s, i, {j \in i..Len(s) : ~IsDigit(s[j])})

DigitVal(c) ==
    CASE c = "0" -> 0 [] c = "1" -> 1 [] c = "2" -> 2 [] c = "3" -> 3
      [] c = "4" -> 4 [] c = "5" -> 5 [] c = "6" -> 6 [] c = "7" -> 7
      [] c = "8" -> 8 [] c = "9" -> 9

RECURSIVE IntOf(_)
\* int(ds) for a non-empty string of digits
IntOf(ds) ==
    IF ds = <<>> THEN 0
    ELSE 10 * IntOf(SubSeq(ds, 1, Len(ds) - 1)) + DigitVal(ds[Len(ds)])

-----------------------------------------------------------------------------
(* parse_unified_diff                                                      *)

HunkMark == <<"@", "@", " ">>
NoNewlineMark ==
    <<"\\", " ", "N", "o", " ", "n", "e", "w", "l", "i", "n", "e", " ",
      "a", "t", " ", "e", "n", "d", " ", "o", "f", " ", "f", "i", "l", "e">>

NoMatch == [ok |-> FALSE]

\* re.match(r"@@ -(\d+),?(\d*) \+(\d+),?(\d*) @@", line): a match of a prefix
\* of the line.  Each \d+ and \d* takes the whole run of digits (giving
\* digits back never turns a failure into a match, as what follows a group
\* is never a digit), and ",?" takes a comma when there is one.

\* ",?" at position p: the position after it
SkipComma(line, p) == IF p <= Len(line) /\ line[p] = "," THEN p + 1 ELSE p

\* " @@" after the fourth group; the groups are line[5..e1-1],
\* line[p2..e2-1], line[e2+2..e3-1] and the digits from p4 on
HeaderTail(line, e1, p2, e2, e3, p4) ==
    IF startswith(From(line, p4 + DigitRun(line, p4)), <<" ", "@", "@">>)
    THEN [ok |-> TRUE,
          g1 |-> SubSeq(line, 5, e1 - 1),
          g2 |-> SubSeq(line, p2, e2 - 1),
          g3 |-> SubSeq(line, e2 + 2, e3 - 1),
          g4 |-> SubSeq(line, p4, p4 + DigitRun(line, p4) - 1)]
    ELSE NoMatch

\* " \+(\d+)" from position e2, the end of the second group
HeaderNew(line, e1, p2, e2) ==
    IF startswith(From(line, e2), <<" ", "+">>) /\ DigitRun(line, e2 + 2) >= 1
    THEN HeaderTail(line, e1, p2, e2, e2 + 2 + DigitRun(line, e2 + 2),
                    SkipComma(line, e2 + 2 + DigitRun(line, e2 + 2)))
    ELSE NoMatch

\* ",?(\d*)" from position e1, the end of the first group
HeaderOldLen(line, e1, p2) == HeaderNew(line, e1, p2, p2 + DigitRun(line, p2))

HeaderMatch(line) ==
    IF startswith(line, <<"@", "@", " ", "-">>) /\ DigitRun(line, 5) >= 1
    THEN HeaderOldLen(line, 5 + DigitRun(line, 5), SkipComma(line, 5 + DigitRun(line, 5)))
    ELSE NoMatch

\* lines 163 and 165 with an omitted length read as 0
IntOr0(g) == IF g = <<>> THEN 0 ELSE IntOf(g)

\* int(m.group(k) or "1")
IntOr1(g) == IF g = <<>> THEN 1 ELSE IntOf(g)

RECURSIVE HunkBodyAllHeaders(_, _, _, _, _)
\* the inner while loop if only a line that the expression of line 158
\* matches ended a body, and not every line that starts with "@@ "
HunkBodyAllHeaders(lines, i, ops, old_buf, new_buf) ==
    IF i > Len(lines) \/ (startswith(lines[i], HunkMark) /\ HeaderMatch(lines[i]).ok)
    THEN [i |-> i, ops |-> ops, old_buf |-> old_buf, new_buf |-> new_buf]
    ELSE
    LET l == lines[i]
        t == From(l, 2)
    IN  IF startswith(l, <<"-">>)
        THEN HunkBodyAllHeaders(lines, i + 1, Append(ops, [op |-> "del", text |-> t]),
                      Append(old_buf, t), new_buf)
        ELSE IF startswith(l, <<"+">>)
        THEN HunkBodyAllHeaders(lines, i + 1, Append(ops, [op |-> "add", text |-> t]),
                      old_buf, Append(new_buf, t))
        ELSE IF startswith(l, <<" ">>)
        THEN HunkBodyAllHeaders(lines, i + 1, Append(ops, [op |-> "ctx", text |-> t]),
                      Append(old_buf, t), Append(new_buf, t))
        ELSE HunkBodyAllHeaders(lines, i + 1, ops, old_buf, new_buf)

RECURSIVE HunkBody(_, _, _, _, _)
\* the inner while loop (lines 169-184): from line i, read the body of a hunk
\* up to the end of the input or the next line that starts with "@@ ".
\* A line with none of the three markers (the no-newline marker included)
\* adds nothing.  Returns the cursor and the three lists.
HunkBody(lines, i, ops, old_buf, new_buf) ==
    IF i > Len(lines) \/ startswith(lines[i], HunkMark)
    THEN [i |-> i, ops |-> ops, old_buf |-> old_buf, new_buf |-> new_buf]
    ELSE
    LET l == lines[i]
        t == From(l, 2)
    IN  IF startswith(l, <<"-">>)
        THEN HunkBody(lines, i + 1, Append(ops, [op |-> "del", text |-> t]),
                      Append(old_buf, t), new_buf)
        ELSE IF startswith(l, <<"+">>)
        THEN HunkBody(lines, i + 1, Append(ops, [op |-> "add", text |-> t]),
                      old_buf, Append(new_buf, t))
        ELSE IF startswith(l, <<" ">>)
        THEN HunkBody(lines, i + 1, Append(ops, [op |-> "ctx", text |-> t]),
                      Append(old_buf, t), Append(new_buf, t))
        ELSE HunkBody(lines, i + 1, ops, old_buf, new_buf)

RECURSIVE ParseFrom(_, _, _)
\* the outer while loop (lines 155-193) with cursor i and the hunks so far
ParseFrom(lines, i, acc) ==
    IF i > Len(lines) THEN acc
    ELSE IF startswith(lines[i], HunkMark)
    THEN LET m == HeaderMatch(lines[i])
         IN  IF ~m.ok THEN ParseFrom(lines, i + 1, acc)
             ELSE LET b == HunkBody(lines, i + 1, <<>>, <<>>, <<>>)
                  IN  ParseFrom(lines, b.i,
                        Append(acc,
                          [old_start |-> IntOf(m.g1), old_len |-> IntOr1(m.g2),
                           new_start |-> IntOf(m.g3), new_len |-> IntOr1(m.g4),
                           ops |-> b.ops,
                           old_snippet |-> Join(<<NL>>, b.old_buf),
                           new_snippet |-> Join(<<NL>>, b.new_buf)]))
    ELSE ParseFrom(lines, i + 1, acc)

parse_unified_diff(text) == ParseFrom(splitlines(text), 1, <<>>)

-----------------------------------------------------------------------------
(* simple_heuristics                                                       *)

NoHeuristics ==
    [risk_flags |-> <<>>, numeric_changes |-> <<>>,
     removed_keywords |-> <<>>, added_keywords |-> <<>>]

S_try == <<"t", "r", "y", ":">>
S_assert == <<"a", "s", "s", "e", "r", "t", " ">>
S_log == <<"l", "o", "g">>
S_logger == <<"l", "o", "g", "g", "e", "r">>
S_todo == <<"t", "o", "d", "o">>
S_fixme == <<"f", "i", "x", "m", "e">>
S_password == <<"p", "a", "s", "s", "w", "o", "r", "d">>
F_removed_try_block == <<"r", "e", "m", "o", "v", "e", "d", "_", "t", "r", "y", "_", "b", "l", "o", "c", "k">>
F_removed_assert == <<"r", "e", "m", "o", "v", "e", "d", "_", "a", "s", "s", "e", "r", "t">>
F_removed_logging == <<"r", "e", "m", "o", "v", "e", "d", "_", "l", "o", "g", "g", "i", "n", "g">>
F_todo_added == <<"t", "o", "d", "o", "_", "a", "d", "d", "e", "d">>
F_reduced == <<"r", "e", "d", "u", "c", "e", "d", "_">>
F_increased == <<"i", "n", "c", "r", "e", "a", "s", "e", "d", "_">>

\* the texts of a list of operations
OpTextsOf(ops) == [i \in 1..Len(ops) |-> ops[i].text]

\* the length of the longest run of \s characters of s that starts at position i
SpaceRun(s, i) == RunUpTo(s, i, {j \in i..Len(s) : ~IsSpace(s[j])})

\* the length of the longest run of [A-Za-z0-9_] of s that starts at position i
WordRun(s, i) == RunUpTo(s, i, {j \in i..Len(s) : ~IsWordChar(s[j])})

\* _NUMERIC_ASSIGN_RE.match(t):
\* ^\s*([A-Za-z_][A-Za-z0-9_]*)\s*=\s*(-?\d+(\.\d+)?)\s*(#.*)?$
\* read from the left, every repetition taking all it can (no shorter choice
\* gives a match where the longest gives none).  "." matches no newline and
\* "$" matches at the end and before a newline that ends the string.

\* \s*(#.*)?$ from position p5; the key is t[p1..k-1], the number t[p3..p5-1]
\* (#.*)?$ from position p6, the end of the spaces after the number
ReComment(t, p1, k, p3, p5, p6) ==
    IF \/ p6 = Len(t) + 1
       \/ /\ p6 <= Len(t) /\ t[p6] = "#"
          /\ \A j \in (p6 + 1)..(Len(t) - 1) : t[j] # NL
    THEN [ok |-> TRUE, g1 |-> SubSeq(t, p1, k - 1), g2 |-> SubSeq(t, p3, p5 - 1)]
    ELSE NoMatch

ReTail(t, p1, k, p3, p5) == ReComment(t, p1, k, p3, p5, p5 + SpaceRun(t, p5))

\* (\.\d+)? from position q, the end of the integer digits
ReFraction(t, p1, k, p3, q) ==
    IF q <= Len(t) /\ t[q] = "." /\ DigitRun(t, q + 1) >= 1
    THEN ReTail(t, p1, k, p3, q + 1 + DigitRun(t, q + 1))
    ELSE ReTail(t, p1, k, p3, q)

\* \d+ from position p4, the end of the sign
ReDigits(t, p1, k, p3, p4) ==
    IF DigitRun(t, p4) >= 1
    THEN ReFraction(t, p1, k, p3, p4 + DigitRun(t, p4))
    ELSE NoMatch

\* -?\d+ from position p3
ReNumber(t, p1, k, p3) ==
    ReDigits(t, p1, k, p3, IF p3 <= Len(t) /\ t[p3] = "-" THEN p3 + 1 ELSE p3)

\* =\s* from position p2, the end of the spaces after the key
ReSign(t, p1, k, p2) ==
    IF p2 <= Len(t) /\ t[p2] = "="
    THEN ReNumber(t, p1, k, p2 + 1 + SpaceRun(t, p2 + 1))
    ELSE NoMatch

\* \s*=\s* from position k, the end of the key
ReEquals(t, p1, k) == ReSign(t, p1, k, k + SpaceRun(t, k))

\* ([A-Za-z_][A-Za-z0-9_]*) from position p1
ReKey(t, p1) ==
    IF p1 <= Len(t) /\ t[p1] \notin Digit /\ WordRun(t, p1) >= 1
    THEN ReEquals(t, p1, p1 + WordRun(t, p1))
    ELSE NoMatch

NUMERIC_ASSIGN_RE(t) == ReKey(t, 1 + SpaceRun(t, 1))

RECURSIVE Pow10(_)
Pow10(k) == IF k = 0 THEN 1 ELSE 10 * Pow10(k - 1)

RECURSIVE Reduce10(_, _)
\* n/d with the common factors of ten taken out
Reduce10(n, d) ==
    IF d > 1 /\ n % 10 = 0 THEN Reduce10(n \div 10, d \div 10) ELSE [n |-> n, d |-> d]

\* the digits of 2^1024 - 2^970, half way between the largest double and
\* 2^1024: the least number that float() gives as inf
OverflowDigits ==
    <<"1", "7", "9", "7", "6", "9", "3", "1", "3", "4", "8", "6", "2", "3", "1", "5",
      "8", "0", "7", "9", "3", "7", "2", "8", "9", "7", "1", "4", "0", "5", "3", "0",
      "3", "4", "1", "5", "0", "7", "9", "9", "3", "4", "1", "3", "2", "7", "1", "0",
      "0", "3", "7", "8", "2", "6", "9", "3", "6", "1", "7", "3", "7", "7", "8", "9",
      "8", "0", "4", "4", "4", "9", "6", "8", "2", "9", "2", "7", "6", "4", "7", "5",
      "0", "9", "4", "6", "6", "4", "9", "0", "1", "7", "9", "7", "7", "5", "8", "7",
      "2", "0", "7", "0", "9", "6", "3", "3", "0", "2", "8", "6", "4", "1", "6", "6",
      "9", "2", "8", "8", "7", "9", "1", "0", "9", "4", "6", "5", "5", "5", "5", "4",
      "7", "8", "5", "1", "9", "4", "0", "4", "0", "2", "6", "3", "0", "6", "5", "7",
      "4", "8", "8", "6", "7", "1", "5", "0", "5", "8", "2", "0", "6", "8", "1", "9",
      "0", "8", "9", "0", "2", "0", "0", "0", "7", "0", "8", "3", "8", "3", "6", "7",
      "6", "2", "7", "3", "8", "5", "4", "8", "4", "5", "8", "1", "7", "7", "1", "1",
      "5", "3", "1", "7", "6", "4", "4", "7", "5", "7", "3", "0", "2", "7", "0", "0",
      "6", "9", "8", "5", "5", "5", "7", "1", "3", "6", "6", "9", "5", "9", "6", "2",
      "2", "8", "4", "2", "9", "1", "4", "8", "1", "9", "8", "6", "0", "8", "3", "4",
      "9", "3", "6", "4", "7", "5", "2", "9", "2", "7", "1", "9", "0", "7", "4", "1",
      "6", "8", "4", "4", "4", "3", "6", "5", "5", "1", "0", "7", "0", "4", "3", "4",
      "2", "7", "1", "1", "5", "5", "9", "6", "9", "9", "5", "0", "8", "0", "9", "3",
      "0", "4", "2", "8", "8", "0", "1", "7", "7", "9", "0", "4", "1", "7", "4", "4",
      "9", "7", "7", "9", "2">>

\* the digits ds without their leading zeros
Significant(ds) == SubSeq(ds, 1 + RunUpTo(ds, 1, {j \in 1..Len(ds) : ds[j] # "0"}), Len(ds))

\* the number of the digits ds is at least the number of the digits ts, both
\* without leading zeros
DigitsAtLeast(ds, ts) ==
    \/ Len(ds) > Len(ts)
    \/ /\ Len(ds) = Len(ts)
       /\ ~\E i \in 1..Len(ds) :
             /\ DigitVal(ds[i]) < DigitVal(ts[i])
             /\ \A j \in 1..(i - 1) : ds[j] = ts[j]

\* a float as the number n/d with its sign bit neg; d = 0 for inf and -inf
Signed(neg, r) == [n |-> r.n, d |-> r.d, neg |-> neg]
Infinite(neg) == [n |-> IF neg THEN 0 - 1 ELSE 1, d |-> 0, neg |-> neg]

\* the number with the integer digits body[1..ni] and the fraction digits frac
FloatOfDigits(neg, body, ni, frac) ==
    Signed(neg, Reduce10((IF neg THEN 0 - 1 ELSE 1) * IntOf(SubSeq(body, 1, ni) \o frac),
                         Pow10(Len(frac))))

\* the number of the decimal body whose integer digits are body[1..ni]: inf
\* from OverflowDigits on
FloatOfSplit(neg, body, ni) ==
    IF DigitsAtLeast(Significant(SubSeq(body, 1, ni)), OverflowDigits)
    THEN Infinite(neg)
    ELSE FloatOfDigits(neg, body, ni,
                       IF ni < Len(body) THEN SubSeq(body, ni + 2, Len(body)) ELSE <<>>)

\* the number of the unsigned decimal body, negated if neg
FloatOfBody(neg, body) == FloatOfSplit(neg, body, DigitRun(body, 1))

\* float(g) for g of the form -?\d+(\.\d+)? : the number n/d, d a power of
\* ten, or an infinity.  A decimal of at most nine digits is told apart from
\* another by its double exactly as by its value, and its value is written
\* back by repr(); longer decimals below OverflowDigits are beyond IntOf.
float(g) == FloatOfBody(g[1] = "-", IF g[1] = "-" THEN Tail(g) ELSE g)

\* a < b for two floats
FloatLess(a, b) ==
    IF a.d = 0 /\ b.d = 0 THEN a.n < b.n
    ELSE IF a.d = 0 THEN a.n < 0
    ELSE IF b.d = 0 THEN b.n > 0
    ELSE a.n * b.d < b.n * a.d

\* line 212 without the word boundaries: a plain substring test
TodoSubstring(t) == Contains(lower(t), S_todo) \/ Contains(lower(t), S_fixme)

\* line 212: re.search(r"\btodo\b|\bfixme\b", t.lower())
TodoSearch(t) == SearchWord(lower(t), S_todo) \/ SearchWord(lower(t), S_fixme)

\* lines 204-213: the flags one operation raises
OpFlags(op) ==
       (IF op.op = "del" /\ Contains(op.text, S_try)
        THEN <<F_removed_try_block>> ELSE <<>>)
    \o (IF op.op = "del" /\ Contains(op.text, S_assert)
        THEN <<F_removed_assert>> ELSE <<>>)
    \o (IF op.op = "del" /\ (SearchWord(op.text, S_log) \/ SearchWord(op.text, S_logger))
        THEN <<F_removed_logging>> ELSE <<>>)
    \o (IF op.op = "add" /\ TodoSearch(op.text) THEN <<F_todo_added>> ELSE <<>>)

\* lines 217-218: [o["text"] for o in ops if o["op"] == kind]
OpsOfKind(ops, kind) == OpTextsOf(SelectSeq(ops, LAMBDA o : o.op = kind))

\* lines 225-230: the entry and the flag of a key whose value changes from old_val
\* to new_val
NumericChange(key, old_val, new_val) ==
    [nc |-> <<[key |-> key, old |-> old_val, new |-> new_val]>>,
     fl |-> IF FloatLess(new_val, old_val) THEN <<F_reduced \o key>>
            ELSE IF FloatLess(old_val, new_val) THEN <<F_increased \o key>>
            ELSE <<>>]

\* lines 224-230: the matches md of a deleted line and ma of an added line
NumericOfMatches(md, ma) ==
    IF md.ok /\ ma.ok /\ ma.g1 = md.g1
    THEN NumericChange(md.g1, float(md.g2), float(ma.g2))
    ELSE [nc |-> <<>>, fl |-> <<>>]

\* the entries and the flags of the results rs, in order
NumericCollect(rs) ==
    [nc |-> Concat([j \in 1..Len(rs) |-> rs[j].nc]),
     fl |-> Concat([j \in 1..Len(rs) |-> rs[j].fl])]

\* lines 222-230: the entries and flags one deleted line d gives with adds
NumericForDel(d, adds) ==
    NumericCollect([j \in 1..Len(adds) |->
        NumericOfMatches(NUMERIC_ASSIGN_RE(d), NUMERIC_ASSIGN_RE(adds[j]))])

\* lines 221-230: the loops over the deleted lines and the added lines
NumericOfLines(dels, adds) ==
    NumericCollect([i \in 1..Len(dels) |-> NumericForDel(dels[i], adds)])

\* lines 216-230 with the deleted lines of every hunk paired with the added
\* lines of the whole input
NumericOfHunkAcrossHunks(h, all) ==
    NumericOfLines(OpsOfKind(h.ops, "del"),
                   Concat([k \in 1..Len(all) |-> OpsOfKind(all[k].ops, "add")]))

\* lines 216-230: the numeric changes of one hunk h of the input all
NumericOfHunk(h, all) ==
    NumericOfLines(OpsOfKind(h.ops, "del"), OpsOfKind(h.ops, "add"))

\* lines 232-233
KeywordLines(h, kind) ==
    OpTextsOf(SelectSeq(h.ops,
        LAMBDA o : o.op = kind /\ Contains(lower(o.text), S_password)))

\* one turn of the loop over the hunks: the four lists acc after the hunk h,
\* num its numeric changes
HeuristicsOfHunk(acc, h, num) ==
    [risk_flags |-> acc.risk_flags
                     \o Concat([i \in 1..Len(h.ops) |-> OpFlags(h.ops[i])])
                     \o num.fl,
     numeric_changes |-> acc.numeric_changes \o num.nc,
     removed_keywords |-> acc.removed_keywords \o KeywordLines(h, "del"),
     added_keywords |-> acc.added_keywords \o KeywordLines(h, "add")]

RECURSIVE HeuristicsLoop(_, _, _)
\* the loop over the hunks (lines 203-233), k the next hunk and acc the four
\* lists so far
HeuristicsLoop(hs, k, acc) ==
    IF k > Len(hs) THEN acc
    ELSE HeuristicsLoop(hs, k + 1,
                        HeuristicsOfHunk(acc, hs[k], NumericOfHunk(hs[k], hs)))

\* lines 235-240: the returned dict, r the four lists after the loop
HeuristicsDict(r) ==
    [risk_flags |-> SortedOfSet(Range(r.risk_flags)),
     numeric_changes |-> r.numeric_changes,
     removed_keywords |-> r.removed_keywords,
     added_keywords |-> r.added_keywords]

simple_heuristics(hs) == HeuristicsDict(HeuristicsLoop(hs, 1, NoHeuristics))

-----------------------------------------------------------------------------
(* to_lines                                                                *)

RECURSIVE LStrip(_)
LStrip(s) == IF s # <<>> /\ IsSpace(s[1]) THEN LStrip(Tail(s)) ELSE s
RECURSIVE RStrip(_)
RStrip(s) ==
    IF s # <<>> /\ IsSpace(s[Len(s)]) THEN RStrip(SubSeq(s, 1, Len(s) - 1)) ELSE s
\* line.strip()
strip(s) == RStrip(LStrip(s))

\* lines 134 and 136: one line of the list
line_of(line, ws) ==
    IF ws THEN strip(line) \o <<NL>>
    ELSE line \o (IF line = <<>> \/ line[Len(line)] # NL THEN <<NL>> ELSE <<>>)

lines_of(ls, ws) == [i \in 1..Len(ls) |-> line_of(ls[i], ws)]

\* to_lines (lines 133-136)
to_lines(s, ws) == lines_of(splitlines(s), ws)

-----------------------------------------------------------------------------
(* difflib.SequenceMatcher(None, a, b, autojunk=True) on inputs with fewer *)
(* than 200 elements in b (no element is junk, none is "popular").         *)
(* Positions are 0-based and ranges half-open, as in difflib.              *)

Max(S) == CHOOSE x \in S : \A y \in S : x >= y
Min(S) == CHOOSE x \in S : \A y \in S : x <= y

RECURSIVE RunLen(_, _, _, _, _, _)
\* the length of the common run of a[i:ahi] and b[j:bhi] from their starts
RunLen(a, b, i, j, ahi, bhi) ==
    IF i < ahi /\ j < bhi /\ a[i + 1] = b[j + 1]
    THEN 1 + RunLen(a, b, i + 1, j + 1, ahi, bhi)
    ELSE 0

\* the common runs of a[alo:ahi] and b[blo:bhi]: (i, j, length) for every
\* pair of positions that hold the same element
runs_in(a, b, alo, ahi, blo, bhi) ==
    {<<p[1], p[2], RunLen(a, b, p[1], p[2], ahi, bhi)>> :
        p \in {q \in (alo..(ahi - 1)) \X (blo..(bhi - 1)) : a[q[1] + 1] = b[q[2] + 1]}}

\* of the longest runs the one that starts earliest in a, and of those the
\* one that starts earliest in b; (alo, blo, 0) when there is no run
longest_of(alo, blo, runs) ==
    IF runs = {} THEN <<alo, blo, 0>>
    ELSE CHOOSE r \in runs :
            \A u \in runs :
                \/ r[3] > u[3]
                \/ r[3] = u[3] /\ r[1] < u[1]
                \/ r[3] = u[3] /\ r[1] = u[1] /\ r[2] <= u[2]

\* find_longest_match: the longest block a[i:i+k] = b[j:j+k] within the two
\* ranges
find_longest_match(a, b, alo, ahi, blo, bhi) ==
    longest_of(alo, blo, runs_in(a, b, alo, ahi, blo, bhi))

RECURSIVE BlocksIn(_, _, _, _, _, _)
\* the blocks to the left of the longest block x, x, and those to its right
BlocksAround(a, b, alo, ahi, blo, bhi, x) ==
    IF x[3] = 0 THEN <<>>
    ELSE (IF alo < x[1] /\ blo < x[2] THEN BlocksIn(a, b, alo, x[1], blo, x[2]) ELSE <<>>)
         \o <<x>>
         \o (IF x[1] + x[3] < ahi /\ x[2] + x[3] < bhi
             THEN BlocksIn(a, b, x[1] + x[3], ahi, x[2] + x[3], bhi) ELSE <<>>)

\* get_matching_blocks: the blocks found in a[alo:ahi], b[blo:bhi], sorted
BlocksIn(a, b, alo, ahi, blo, bhi) ==
    BlocksAround(a, b, alo, ahi, blo, bhi, find_longest_match(a, b, alo, ahi, blo, bhi))

RECURSIVE Collapse(_, _)
\* get_matching_blocks: adjacent blocks made one; cur is (i1, j1, k1)
Collapse(blocks, cur) ==
    IF blocks = <<>> THEN (IF cur[3] > 0 THEN <<cur>> ELSE <<>>)
    ELSE LET x == Head(blocks)
         IN  IF cur[1] + cur[3] = x[1] /\ cur[2] + cur[3] = x[2]
             THEN Collapse(Tail(blocks), <<cur[1], cur[2], cur[3] + x[3]>>)
             ELSE (IF cur[3] > 0 THEN <<cur>> ELSE <<>>) \o Collapse(Tail(blocks), x)

get_matching_blocks(a, b) ==
    Collapse(BlocksIn(a, b, 0, Len(a), 0, Len(b)), <<0, 0, 0>>)
        \o << <<Len(a), Len(b), 0>> >>

RECURSIVE SumSizes(_)
SumSizes(blocks) ==
    IF blocks = <<>> THEN 0 ELSE Head(blocks)[3] + SumSizes(Tail(blocks))

\* the number of matched elements that ratio() counts
Matches(a, b) == SumSizes(get_matching_blocks(a, b))

RECURSIVE OpcodesFrom(_, _, _)
\* get_opcodes: the loop over the matching blocks, (i, j) the position reached
OpcodesFrom(blocks, i, j) ==
    IF blocks = <<>> THEN <<>>
    ELSE LET ai == Head(blocks)[1]
             bj == Head(blocks)[2]
             size == Head(blocks)[3]
             tag == IF i < ai /\ j < bj THEN "replace"
                    ELSE IF i < ai THEN "delete"
                    ELSE IF j < bj THEN "insert" ELSE ""
         IN  (IF tag # "" THEN << <<tag, i, ai, j, bj>> >> ELSE <<>>)
             \o (IF size > 0 THEN << <<"equal", ai, ai + size, bj, bj + size>> >> ELSE <<>>)
             \o OpcodesFrom(Tail(blocks), ai + size, bj + size)

get_opcodes(a, b) == OpcodesFrom(get_matching_blocks(a, b), 0, 0)

MaxOf(x, y) == IF x >= y THEN x ELSE y
MinOf(x, y) == IF x <= y THEN x ELSE y

RECURSIVE GroupLoop(_, _, _, _)
\* get_grouped_opcodes: the loop over the codes, group the group being built
GroupLoop(codes, n, group, out) ==
    IF codes = <<>>
    THEN IF group # <<>> /\ ~(Len(group) = 1 /\ group[1][1] = "equal")
         THEN Append(out, group) ELSE out
    ELSE LET c == Head(codes)
         IN  IF c[1] = "equal" /\ c[3] - c[2] > n + n
             THEN GroupLoop(Tail(codes), n,
                    << <<c[1], MaxOf(c[2], c[3] - n), c[3], MaxOf(c[4], c[5] - n), c[5]>> >>,
                    Append(out, Append(group,
                       <<c[1], c[2], MinOf(c[3], c[2] + n), c[4], MinOf(c[5], c[4] + n)>>)))
             ELSE GroupLoop(Tail(codes), n, Append(group, c), out)

\* get_grouped_opcodes: a dummy code for two equal empty inputs
codes_or_dummy(codes) == IF codes = <<>> THEN << <<"equal", 0, 1, 0, 1>> >> ELSE codes

\* get_grouped_opcodes: the first code, when "equal", cut to its last n
trim_first(c, n) ==
    IF c[1][1] = "equal"
    THEN [c EXCEPT ![1] = <<"equal", MaxOf(c[1][2], c[1][3] - n), c[1][3],
                            MaxOf(c[1][4], c[1][5] - n), c[1][5]>>]
    ELSE c

\* get_grouped_opcodes: the last code, when "equal", cut to its first n
trim_last(c, n) ==
    IF c[Len(c)][1] = "equal"
    THEN [c EXCEPT ![Len(c)] = <<"equal", c[Len(c)][2], MinOf(c[Len(c)][3], c[Len(c)][2] + n),
                                 c[Len(c)][4], MinOf(c[Len(c)][5], c[Len(c)][4] + n)>>]
    ELSE c

get_grouped_opcodes(a, b, n) ==
    GroupLoop(trim_last(trim_first(codes_or_dummy(get_opcodes(a, b)), n), n), n, <<>>, <<>>)

DigitChar(d) == <<"0", "1", "2", "3", "4", "5", "6", "7", "8", "9">>[d + 1]
RECURSIVE StrOfInt(_)
\* '{}'.format(n) for n >= 0
StrOfInt(n) ==
    IF n < 10 THEN <<DigitChar(n)>> ELSE Append(StrOfInt(n \div 10), DigitChar(n % 10))

\* _format_range_unified
format_range_unified(start, stop) ==
    LET length == stop - start
    IN  IF length = 1 THEN StrOfInt(start + 1)
        ELSE StrOfInt(IF length = 0 THEN start ELSE start + 1) \o <<",">> \o StrOfInt(length)

\* the lines unified_diff yields for one group
GroupLines(a, b, group) ==
    LET first == group[1]
        last == group[Len(group)]
        Body(c) ==
            IF c[1] = "equal"
            THEN [x \in 1..(c[3] - c[2]) |-> <<" ">> \o a[c[2] + x]]
            ELSE (IF c[1] \in {"replace", "delete"}
                  THEN [x \in 1..(c[3] - c[2]) |-> <<"-">> \o a[c[2] + x]] ELSE <<>>)
              \o (IF c[1] \in {"replace", "insert"}
                  THEN [x \in 1..(c[5] - c[4]) |-> <<"+">> \o b[c[4] + x]] ELSE <<>>)
    IN  << <<"@", "@", " ", "-">> \o format_range_unified(first[2], last[3])
             \o <<" ", "+">> \o format_range_unified(first[4], last[5])
             \o <<" ", "@", "@">> >>
        \o Concat([g \in 1..Len(group) |-> Body(group[g])])

\* unified_diff: the two file lines and the lines of the groups
diff_lines(a, b, fromfile, tofile, groups) ==
    IF groups = <<>> THEN <<>>
    ELSE << <<"-", "-", "-", " ">> \o fromfile, <<"+", "+", "+", " ">> \o tofile >>
         \o Concat([g \in 1..Len(groups) |-> GroupLines(a, b, groups[g])])

\* difflib.unified_diff(a, b, fromfile, tofile, n=n, lineterm="")
unified_diff(a, b, fromfile, tofile, n) ==
    diff_lines(a, b, fromfile, tofile, get_grouped_opcodes(a, b, n))

S_no_differences == <<"(", "n", "o", " ", "d", "i", "f", "f", "e", "r", "e", "n", "c", "e", "s", ")">>

\* lines 139-141 without the sentinel: the joined lines as they are
unified_diff_joined(left_lines, right_lines, left_name, right_name, n) ==
    Join(<<NL>>, unified_diff(left_lines, right_lines, left_name, right_name, n))

\* line 141: or "(no differences)"
or_sentinel(d) == IF d = <<>> THEN S_no_differences ELSE d

\* unified_diff_text (lines 138-141)
unified_diff_text(left_lines, right_lines, left_name, right_name, n) ==
    or_sentinel(unified_diff_joined(left_lines, right_lines, left_name, right_name, n))

-----------------------------------------------------------------------------
(* Python float arithmetic (IEEE 754 binary64, round to nearest even) on   *)
(* the non-negative values the statistics take.  A natural number is held  *)
(* as its binary digits, most significant first, and a double as b * 2^e   *)
(* with b odd (or b = 0 and e = 0).                                        *)

MantissaBits == 53

RECURSIVE BitsOf(_)
BitsOf(n) == IF n = 0 THEN <<>> ELSE Append(BitsOf(n \div 2), n % 2)

RECURSIVE NatOf(_)
NatOf(bits) ==
    IF bits = <<>> THEN 0 ELSE 2 * NatOf(SubSeq(bits, 1, Len(bits) - 1)) + bits[Len(bits)]

RECURSIVE StripLeading(_)
StripLeading(bits) ==
    IF bits # <<>> /\ bits[1] = 0 THEN StripLeading(Tail(bits)) ELSE bits

Zeros(k) == [i \in 1..k |-> 0]

RECURSIVE BigInc(_)
\* bits + 1
BigInc(bits) ==
    IF bits = <<>> THEN <<1>>
    ELSE IF bits[Len(bits)] = 0 THEN [bits EXCEPT ![Len(bits)] = 1]
    ELSE Append(BigInc(SubSeq(bits, 1, Len(bits) - 1)), 0)

RECURSIVE MulLoop(_, _, _, _, _)
\* the digits of bits * c from the last digit on: i the next digit to
\* multiply, low the digits of the product so far (the test on Len makes the
\* digits computed before the next step, not kept as a pending expression)
MulLoop(bits, c, i, carry, low) ==
    IF i = 0 THEN BitsOf(carry) \o low
    ELSE LET v == bits[i] * c + carry
             next == <<v % 2>> \o low
         IN  IF Len(next) = Len(low) + 1
             THEN MulLoop(bits, c, i - 1, v \div 2, next)
             ELSE <<>>

\* bits * c for a small natural number c
BigMulSmall(bits, c) == StripLeading(MulLoop(bits, c, Len(bits), 0, <<>>))

\* 2^p - bits, for bits <= 2^p
BigSubFromPow2(p, bits) ==
    IF bits = <<>> THEN <<1>> \o Zeros(p)
    ELSE IF Len(bits) > p THEN <<>>
    ELSE LET padded == Zeros(p - Len(bits)) \o bits
             inverted == [i \in 1..p |-> 1 - padded[i]]
             r == BigInc(StripLeading(inverted))
         IN  r

RECURSIVE Canon(_, _)
\* the double b * 2^e with b made odd
Canon(bits, e) ==
    IF bits = <<>> THEN [b |-> <<>>, e |-> 0]
    ELSE IF bits[Len(bits)] = 0 THEN Canon(SubSeq(bits, 1, Len(bits) - 1), e + 1)
    ELSE [b |-> bits, e |-> e]

\* bits * 2^e rounded to a double: the first 53 binary digits, rounded to
\* nearest, a tie to the even one
RoundToDouble(bits, e) ==
    IF Len(bits) <= MantissaBits THEN Canon(bits, e)
    ELSE LET kept == SubSeq(bits, 1, MantissaBits)
             rest == SubSeq(bits, MantissaBits + 1, Len(bits))
             sticky == \E i \in 2..Len(rest) : rest[i] = 1
             up == rest[1] = 1 /\ (sticky \/ kept[MantissaBits] = 1)
         IN  Canon(IF up THEN BigInc(kept) ELSE kept, e + Len(rest))

FOne == [b |-> <<1>>, e |-> 0]

RECURSIVE DivLoop(_, _, _, _, _)
\* long division of (num followed by zeros) by d: q the quotient digits from
\* the first 1 on, s the number of zeros taken after the end of num (the
\* test on s1 makes it computed before the next step)
DivLoop(num, d, rem, q, s) ==
    IF num = <<>> /\ (rem = 0 \/ Len(q) = MantissaBits)
    THEN LET up == 2 * rem > d \/ (2 * rem = d /\ q # <<>> /\ q[Len(q)] = 1)
         IN  Canon(IF up THEN BigInc(q) ELSE q, 0 - s)
    ELSE LET bit == IF num = <<>> THEN 0 ELSE num[1]
             r == 2 * rem + bit
             qb == IF r >= d THEN 1 ELSE 0
             s1 == IF num = <<>> THEN s + 1 ELSE s
         IN  IF s1 >= s
             THEN DivLoop(IF num = <<>> THEN <<>> ELSE Tail(num), d,
                          IF r >= d THEN r - d ELSE r,
                          IF q = <<>> /\ qb = 0 THEN q ELSE Append(q, qb),
                          s1)
             ELSE FOne

\* n / d in float arithmetic, for natural numbers n and d > 0 (n below 2^53)
FDiv(n, d) == DivLoop(BitsOf(n), d, 0, <<>>, 0)

\* 1 - x in float arithmetic, for 0 <= x <= 1
FSubFrom1(x) ==
    IF x.b = <<>> THEN FOne
    ELSE RoundToDouble(BigSubFromPow2(0 - x.e, x.b), x.e)

\* x * c in float arithmetic, for a small natural number c
FMul(x, c) == RoundToDouble(BigMulSmall(x.b, c), x.e)

\* round(x, nd): the number of units 10^-nd in the decimal nearest to the
\* exact value of the double x, a tie to the even one (the float returned is
\* the double nearest to that decimal)
PyRound(x, nd) ==
    LET N == BigMulSmall(x.b, Pow10(nd))
        f == 0 - x.e
    IN  IF f <= 0 THEN NatOf(N \o Zeros(0 - f))
        ELSE LET int == IF Len(N) > f THEN SubSeq(N, 1, Len(N) - f) ELSE <<>>
                 frac == IF Len(N) >= f THEN SubSeq(N, Len(N) - f + 1, Len(N))
                         ELSE Zeros(f - Len(N)) \o N
                 sticky == \E i \in 2..f : frac[i] = 1
                 odd == int # <<>> /\ int[Len(int)] = 1
                 up == frac[1] = 1 /\ (sticky \/ odd)
             IN  NatOf(int) + (IF up THEN 1 ELSE 0)

\* the float that round(x, nd) returns when it is units * 10^-nd
FloatOfDecimal(units, nd) == FDiv(units, Pow10(nd))

-----------------------------------------------------------------------------
(* similarity_scores                                                       *)

\* SequenceMatcher.ratio(): 2.0 * matches / length, 1.0 for two empty inputs
ratio(a, b) ==
    IF Len(a) + Len(b) = 0 THEN FOne
    ELSE FDiv(2 * Matches(a, b), Len(a) + Len(b))

\* set(re.findall(r"\w+", s)): the runs of \w characters that no \w
\* character precedes or follows
findall_words(s) ==
    LET Starts(i) == IsWordChar(s[i]) /\ (i = 1 \/ ~IsWordChar(s[i - 1]))
    IN  {SubSeq(s, i, i + WordRun(s, i) - 1) : i \in {j \in 1..Len(s) : Starts(j)}}

\* line 130
jaccard(toks_a, toks_b) ==
    IF toks_a \cup toks_b = {} THEN FOne
    ELSE FDiv(Cardinality(toks_a \cap toks_b), Cardinality(toks_a \cup toks_b))

similarity_scores(a, b) ==
    [sm_char |-> ratio(a, b),
     sm_line |-> ratio(splitlines(a), splitlines(b)),
     jacc |-> jaccard(findall_words(lower(a)), findall_words(lower(b)))]

-----------------------------------------------------------------------------
(* make_change_record                                                      *)

\* round(x, nd) as the float it returns
round(x, nd) == FloatOfDecimal(PyRound(x, nd), nd)

\* line 258 with the estimate rounded to one decimal place
percent_different_coarse(sm_char) == round(FMul(FSubFrom1(sm_char), 100), 1)

\* line 258: round((1 - sm_char) * 100, 2)
percent_different_estimate(sm_char) == round(FMul(FSubFrom1(sm_char), 100), 2)

TwoDigits(n) == <<DigitChar(n \div 10), DigitChar(n % 10)>>

S_date == <<"2", "0", "2", "5", "-", "0", "1", "-", "0", "1">>

\* time.strftime('%Y-%m-%dT%H:%M:%SZ') at t seconds after midnight of the
\* day S_date
strftime(t) ==
    S_date \o <<"T">> \o TwoDigits(t \div 3600) \o <<":">> \o TwoDigits((t \div 60) % 60)
        \o <<":">> \o TwoDigits(t % 60) \o <<"Z">>

\* line 251 without the random suffix
record_id_of_time(now, uuid4_hex) == strftime(now)

\* line 251: the time stamp, "_" and the first six hex digits of a uuid4
record_id(now, uuid4_hex) == strftime(now) \o <<"_">> \o SubSeq(uuid4_hex, 1, 6)

S_left_txt == <<"l", "e", "f", "t", ".", "t", "x", "t">>
S_right_txt == <<"r", "i", "g", "h", "t", ".", "t", "x", "t">>

\* lines 253-259
stats_of(left_lines, right_lines, sc) ==
    [lines_left |-> Len(left_lines), lines_right |-> Len(right_lines),
     char_similarity |-> round(sc.sm_char, 4),
     line_similarity |-> round(sc.sm_line, 4),
     token_jaccard |-> round(sc.jacc, 4),
     percent_different_estimate |-> percent_different_estimate(sc.sm_char)]

\* lines 250-263: the record, from the values of lines 243-248
record_of(id, left_name, right_name, left_lines, right_lines, uni, hs, sc) ==
    [id |-> id,
     source |-> [left_name |-> left_name, right_name |-> right_name],
     stats |-> stats_of(left_lines, right_lines, sc),
     unified_diff |-> uni,
     hunks |-> hs,
     heuristics |-> simple_heuristics(hs)]

\* lines 246-247
diff_and_record(id, l_text, r_text, left_name, right_name, left_lines, right_lines, uni) ==
    record_of(id, left_name, right_name, left_lines, right_lines, uni,
              parse_unified_diff(uni), similarity_scores(l_text, r_text))

\* lines 243-246
lines_and_record(id, l_text, r_text, left_name, right_name, n, left_lines, right_lines) ==
    diff_and_record(id, l_text, r_text, left_name, right_name, left_lines, right_lines,
                    unified_diff_text(left_lines, right_lines, left_name, right_name, n))

\* make_change_record called at clock time now, uuid4_hex the uuid it draws
make_change_record(l_text, r_text, left_name, right_name, n, ws, now, uuid4_hex) ==
    lines_and_record(record_id(now, uuid4_hex), l_text, r_text, left_name, right_name, n,
                     to_lines(l_text, ws), to_lines(r_text, ws))

-----------------------------------------------------------------------------
(* json.dumps(r, ensure_ascii=False) and save_jsonl                        *)

\* the characters that json.dumps writes as an escape (of the characters of
\* the model): the quote, the backslash and the control characters
IsEscaped(c) == c \in {"\"", "\\", NL, CR, TAB, FF}

EscapeOf(c) ==
    CASE c = "\"" -> <<"\\", "\"">>
      [] c = "\\" -> <<"\\", "\\">>
      [] c = NL -> <<"\\", "n">>
      [] c = CR -> <<"\\", "r">>
      [] c = TAB -> <<"\\", "t">>
      [] c = FF -> <<"\\", "f">>

\* s with the characters at the positions sp written as escapes
EscapeAt(s, sp) ==
    Concat([k \in 1..(Len(sp) + 1) |->
        SubSeq(s, IF k = 1 THEN 1 ELSE sp[k - 1] + 1,
                  IF k <= Len(sp) THEN sp[k] - 1 ELSE Len(s))
        \o (IF k <= Len(sp) THEN EscapeOf(s[sp[k]]) ELSE <<>>)])

\* json.dumps of a str
dumps_str(s) ==
    <<"\"">> \o EscapeAt(s, SelectSeq([i \in 1..Len(s) |-> i], LAMBDA i : IsEscaped(s[i])))
        \o <<"\"">>

\* json.dumps of an int
dumps_int(n) == IF n < 0 THEN <<"-">> \o StrOfInt(0 - n) ELSE StrOfInt(n)

\* the digits ds after k zeros
ZeroPadded(ds, k) == [i \in 1..k |-> "0"] \o ds

\* repr() in the form d.ddde-XX, ds the digits of the number from its first
\* non-zero digit on and ex the exponent of ten of that digit (ex < 0)
ReprExponent(ds, ex) ==
    <<ds[1]>> \o (IF Len(ds) > 1 THEN <<".">> \o Tail(ds) ELSE <<>>)
        \o <<"e", "-">> \o (IF 0 - ex < 10 THEN <<"0">> ELSE <<>>) \o StrOfInt(0 - ex)

\* repr() in the form ddd.ddd of the number n/d, places the number of
\* digits after the point (d = 10^places)
ReprFixed(n, d, places) ==
    StrOfInt(n \div d) \o <<".">>
        \o (IF places = 0 THEN <<"0">>
            ELSE ZeroPadded(StrOfInt(n % d), places - Len(StrOfInt(n % d))))

\* the number of digits after the point of a number written over d = 10^k
RECURSIVE Places(_)
Places(d) == IF d = 1 THEN 0 ELSE 1 + Places(d \div 10)

\* float.__repr__ of the number n/d > 0 (below 10^16, where repr() changes
\* to an exponent again): with an exponent below 0.0001
ReprPositive(n, d) ==
    IF n < d \div 10000
    THEN ReprExponent(StrOfInt(n), Len(StrOfInt(n)) - 1 - Places(d))
    ELSE ReprFixed(n, d, Places(d))

\* json.dumps of a float x: float.__repr__(x), and Infinity and -Infinity
\* for the two infinities (allow_nan is True)
dumps_float(x) ==
    (IF x.neg THEN <<"-">> ELSE <<>>)
    \o (IF x.d = 0 THEN <<"I", "n", "f", "i", "n", "i", "t", "y">>
        ELSE IF x.n = 0 THEN <<"0", ".", "0">>
        ELSE ReprPositive(IF x.n < 0 THEN 0 - x.n ELSE x.n, x.d))

ReprDigits == 4

\* the shortest decimal that float() takes back to the double x >= 0, which
\* is what repr() writes (x one of the values that round() returns, with at
\* most ReprDigits places)
DecimalOf(x) ==
    Signed(FALSE,
           Reduce10(PyRound(x, CHOOSE k \in 0..ReprDigits :
                                 /\ FloatOfDecimal(PyRound(x, k), k) = x
                                 /\ \A j \in 0..(k - 1) : FloatOfDecimal(PyRound(x, j), j) # x),
                    Pow10(CHOOSE k \in 0..ReprDigits :
                              /\ FloatOfDecimal(PyRound(x, k), k) = x
                              /\ \A j \in 0..(k - 1) : FloatOfDecimal(PyRound(x, j), j) # x)))

\* "key": value
Member(key, value) == dumps_str(key) \o <<":", " ">> \o value

\* json.dumps of a dict, from its members, and of a list, from its items
dumps_dict(members) == <<"{">> \o Join(<<",", " ">>, members) \o <<"}">>
dumps_list(items) == <<"[">> \o Join(<<",", " ">>, items) \o <<"]">>

dumps_strs(ss) == dumps_list([i \in 1..Len(ss) |-> dumps_str(ss[i])])

\* the str of the name of an operation
OpName(op) ==
    CASE op = "del" -> <<"d", "e", "l">> [] op = "add" -> <<"a", "d", "d">> [] op = "ctx" -> <<"c", "t", "x">>

dumps_op(o) ==
    dumps_dict(<<Member(<<"o", "p">>, dumps_str(OpName(o.op))),
                 Member(<<"t", "e", "x", "t">>, dumps_str(o.text))>>)

dumps_hunk(h) ==
    dumps_dict(<<Member(<<"o", "l", "d", "_", "s", "t", "a", "r", "t">>, dumps_int(h.old_start)),
                 Member(<<"o", "l", "d", "_", "l", "e", "n">>, dumps_int(h.old_len)),
                 Member(<<"n", "e", "w", "_", "s", "t", "a", "r", "t">>, dumps_int(h.new_start)),
                 Member(<<"n", "e", "w", "_", "l", "e", "n">>, dumps_int(h.new_len)),
                 Member(<<"o", "p", "s">>, dumps_list([i \in 1..Len(h.ops) |-> dumps_op(h.ops[i])])),
                 Member(<<"o", "l", "d", "_", "s", "n", "i", "p", "p", "e", "t">>, dumps_str(h.old_snippet)),
                 Member(<<"n", "e", "w", "_", "s", "n", "i", "p", "p", "e", "t">>, dumps_str(h.new_snippet))>>)

dumps_numeric_change(c) ==
    dumps_dict(<<Member(<<"k", "e", "y">>, dumps_str(c.key)),
                 Member(<<"o", "l", "d">>, dumps_float(c.old)),
                 Member(<<"n", "e", "w">>, dumps_float(c.new))>>)

dumps_heuristics(he) ==
    dumps_dict(<<Member(<<"r", "i", "s", "k", "_", "f", "l", "a", "g", "s">>, dumps_strs(he.risk_flags)),
                 Member(<<"n", "u", "m", "e", "r", "i", "c", "_", "c", "h", "a", "n", "g", "e", "s">>,
                        dumps_list([i \in 1..Len(he.numeric_changes) |->
                                       dumps_numeric_change(he.numeric_changes[i])])),
                 Member(<<"r", "e", "m", "o", "v", "e", "d", "_", "k", "e", "y", "w", "o", "r", "d", "s">>, dumps_strs(he.removed_keywords)),
                 Member(<<"a", "d", "d", "e", "d", "_", "k", "e", "y", "w", "o", "r", "d", "s">>, dumps_strs(he.added_keywords))>>)

dumps_stats(st) ==
    dumps_dict(<<Member(<<"l", "i", "n", "e", "s", "_", "l", "e", "f", "t">>, dumps_int(st.lines_left)),
                 Member(<<"l", "i", "n", "e", "s", "_", "r", "i", "g", "h", "t">>, dumps_int(st.lines_right)),
                 Member(<<"c", "h", "a", "r", "_", "s", "i", "m", "i", "l", "a", "r", "i", "t", "y">>, dumps_float(DecimalOf(st.char_similarity))),
                 Member(<<"l", "i", "n", "e", "_", "s", "i", "m", "i", "l", "a", "r", "i", "t", "y">>, dumps_float(DecimalOf(st.line_similarity))),
                 Member(<<"t", "o", "k", "e", "n", "_", "j", "a", "c", "c", "a", "r", "d">>, dumps_float(DecimalOf(st.token_jaccard))),
                 Member(<<"p", "e", "r", "c", "e", "n", "t", "_", "d", "i", "f", "f", "e", "r", "e", "n", "t", "_", "e", "s", "t", "i", "m", "a", "t", "e">>,
                        dumps_float(DecimalOf(st.percent_different_estimate)))>>)

dumps_source(so) ==
    dumps_dict(<<Member(<<"l", "e", "f", "t", "_", "n", "a", "m", "e">>, dumps_str(so.left_name)),
                 Member(<<"r", "i", "g", "h", "t", "_", "n", "a", "m", "e">>, dumps_str(so.right_name))>>)

\* line 269: json.dumps(r, ensure_ascii=False) of a change record r, its
\* members in the order of lines 250-263
json_dumps(r) ==
    dumps_dict(<<Member(<<"i", "d">>, dumps_str(r.id)),
                 Member(<<"s", "o", "u", "r", "c", "e">>, dumps_source(r.source)),
                 Member(<<"s", "t", "a", "t", "s">>, dumps_stats(r.stats)),
                 Member(<<"u", "n", "i", "f", "i", "e", "d", "_", "d", "i", "f", "f">>, dumps_str(r.unified_diff)),
                 Member(<<"h", "u", "n", "k", "s">>, dumps_list([i \in 1..Len(r.hunks) |-> dumps_hunk(r.hunks[i])])),
                 Member(<<"h", "e", "u", "r", "i", "s", "t", "i", "c", "s">>, dumps_heuristics(r.heuristics))>>)

\* lines 268-269: what the loop writes to f
written(records) ==
    Concat([i \in 1..Len(records) |-> json_dumps(records[i]) \o <<NL>>])

\* save_jsonl(records, path): the content of the file after the call that
\* finds it with content (mode "a": every write goes to the end)
save_jsonl(records, content) == content \o written(records)

-----------------------------------------------------------------------------
(* Specification of parse_unified_diff on arbitrary input text             *)

MaxDiffLines == 4

\* lines an input text is made of
DiffLinePool ==
    { <<"@", "@", " ", "-", "1", "0", ",", "2", " ", "+", "7", " ", "@", "@", " ", "f">>,
      <<"@", "@", " ", "-", "1", ",", " ", "+", "1", " ", "@", "@">>,
      <<"@", "@", " ", "x">>,
      <<"-", "a">>,
      <<"+", "b">>,
      <<" ", "c">>,
      <<>>,
      NoNewlineMark }

RECURSIVE SeqsUpTo(_, _)
\* the sequences of at most n elements of S
SeqsUpTo(S, n) ==
    IF n = 0 THEN {<<>>}
    ELSE LET shorter == SeqsUpTo(S, n - 1)
         IN  shorter \cup {Append(s, x) : s \in {t \in shorter : Len(t) = n - 1}, x \in S}

\* longer inputs: a body with an unmarked line, a malformed "@@ " line after
\* it, and two hunks with the no-newline marker between their lines
ExtraDiffs ==
    LET H == <<"@", "@", " ", "-", "1", "0", ",", "2", " ", "+", "7", " ", "@", "@", " ", "f">>
    IN  { <<H, <<>>, <<"-", "a">>, <<"@", "@", " ", "x">>, <<"+", "b">>>>,
          <<<<"-", "a">>, H, <<" ", "c">>, <<"-", "a">>, NoNewlineMark, <<"+", "b">>, H, <<"+", "b">>>> }

None == [none |-> TRUE]

StartClock == 58

NumCallers == 2
Callers == 1..NumCallers

\* a caller that has not called save_jsonl
IdleWriter == [pc |-> "idle", pending |-> <<>>]

\* an empty file and no call of save_jsonl yet
SaveIdle ==
    target = <<>> /\ saved = <<>> /\ writers = [c \in Callers |-> IdleWriter]

\* no call of make_change_record yet
RecordIdle ==
    /\ left_text = <<>> /\ right_text = <<>> /\ n_context = 3 /\ strip_ws = FALSE
    /\ rec = None /\ clock = StartClock /\ made = <<>>
    /\ SaveIdle

InitParse ==
    /\ pc = "input"
    /\ unified \in {Join(<<NL>>, ls) : ls \in SeqsUpTo(DiffLinePool, MaxDiffLines) \cup ExtraDiffs}
    /\ hunks = <<>>
    /\ heuristics = NoHeuristics
    /\ RecordIdle

ParseUnifiedDiff ==
    /\ pc = "input"
    /\ hunks' = parse_unified_diff(unified)
    /\ pc' = "parsed"
    /\ UNCHANGED <<unified, heuristics, recordVars, idVars, saveVars>>

NextParse == ParseUnifiedDiff

SpecParse == InitParse /\ [][NextParse]_vars

-----------------------------------------------------------------------------
(* Specification of make_change_record on arbitrary texts                  *)

MaxLines == 3
MaxContext == 1
LongLen == 160

TextLinePool == { <<"a">>, <<" ", "b", " ">> }

\* the uuid4().hex values a call may draw; the first two begin alike
UuidPool ==
    { <<"3", "f", "2", "a", "9", "c", "0", "e", "7", "b", "1", "d", "4", "f", "6", "a", "8", "c", "5", "e", "2", "b", "9", "d", "0", "a", "7", "f", "4", "c", "1", "e">>,
      <<"3", "f", "2", "a", "9", "c", "1", "1", "a", "a", "4", "b", "4", "c", "7", "d", "9", "e", "0", "f", "1", "a", "2", "b", "3", "c", "4", "d", "5", "e", "6", "f">>,
      <<"b", "0", "7", "d", "4", "e", "5", "a", "6", "c", "2", "f", "4", "8", "1", "3", "a", "9", "d", "0", "e", "1", "f", "2", "a", "3", "b", "4", "c", "5", "d", "6">> }

\* the text made of the lines ls, each ended by a newline
TextOf(ls) == Concat([i \in 1..Len(ls) |-> ls[i] \o <<NL>>])

\* pairs of texts with blank lines, other line ends, no last line end, lines
\* that look like parts of a diff, lines the heuristics react to, several
\* hunks, and two long lines that share their first character only
ExtraPairs ==
    { <<<<"a", NL, NL, "b", CR, NL, "c", CR, "d">>,
        <<"a", NL, NL, "B", NL, "c", NL, NL, "d", NL>>>>,
      <<<<"k", " ", NL, "l", NL, "m", NL, "n", NL, "o", NL, " ", "p", NL, "q", NL>>,
        <<"K", NL, "l", NL, "m", NL, "n", NL, "o", NL, "p", " ", NL, "Q", NL>>>>,
      <<<<"@", "@", " ", "-", "1", " ", "+", "1", " ", "@", "@", NL, "-", "-", " ", "x", NL, "\\", " ", "N", "o", " ", "n", "e", "w", "l", "i", "n", "e", " ", "a", "t", " ", "e", "n", "d", " ", "o", "f", " ", "f", "i", "l", "e", NL, " ", "y", NL>>,
        <<"+", "+", " ", "x", NL, "@", "@", " ", "-", "1", " ", "+", "1", " ", "@", "@", NL, " ", "y", " ", NL, "+", "z">>>>,
      <<<<>>,
        <<"o", "n", "e", " ", "t", "w", "o", NL>>>>,
      <<<<"#", " ", "T", "O", "D", "O", ":", " ", "x", NL, "p", "a", "s", "s", "w", "o", "r", "d", " ", "=", " ", "1", NL, "t", "r", "y", ":", NL>>,
        <<"#", " ", "T", "O", "D", "O", ":", " ", "x", NL, "p", "a", "s", "s", "w", "o", "r", "d", " ", "=", " ", "1", NL, "t", "r", "y", ":", NL>>>>,
      <<<<"m", "a", "x", "_", "r", "e", "t", "r", "i", "e", "s", " ", "=", " ", "5", NL, "l", "o", "g", ".", "i", "n", "f", "o", "(", "1", ")", NL, "a", "s", "s", "e", "r", "t", " ", "x", NL>>,
        <<"m", "a", "x", "_", "r", "e", "t", "r", "i", "e", "s", " ", "=", " ", "2", NL, "#", " ", "f", "i", "x", "m", "e", NL>>>>,
      <<[i \in 1..LongLen |-> IF i = 1 THEN "a" ELSE "b"],
        [i \in 1..LongLen |-> IF i = 1 THEN "a" ELSE "c"]>> }

TextPairs ==
    ({TextOf(ls) : ls \in SeqsUpTo(TextLinePool, MaxLines)}
        \X {TextOf(ls) : ls \in SeqsUpTo(TextLinePool, MaxLines)})
    \cup ExtraPairs

InitRecord ==
    /\ pc = "input"
    /\ unified = <<>> /\ hunks = <<>> /\ heuristics = NoHeuristics
    /\ \E p \in TextPairs : left_text = p[1] /\ right_text = p[2]
    /\ n_context \in 0..MaxContext
    /\ strip_ws \in BOOLEAN
    /\ rec = None
    /\ clock = StartClock
    /\ made = <<>>
    /\ SaveIdle

\* line 357: the record of the two texts, built at the time the clock shows
MakeChangeRecord ==
    /\ pc = "input"
    /\ \E u \in UuidPool :
          /\ rec' = make_change_record(left_text, right_text, S_left_txt, S_right_txt,
                                       n_context, strip_ws, clock, u)
          /\ made' = Append(made, [now |-> clock, uuid |-> u, id |-> rec'.id])
    /\ pc' = "built"
    /\ UNCHANGED <<parseVars, left_text, right_text, n_context, strip_ws, clock, saveVars>>

NextRecord == MakeChangeRecord

SpecRecord == InitRecord /\ [][NextRecord]_vars

-----------------------------------------------------------------------------
(* Specification of the ids of successive calls of make_change_record     *)

MaxCalls == 3
MaxClock == 61

\* the texts of a call
IdPairs ==
    { <<<<"a", NL>>, <<"a", NL>>>>,
      <<<<"a", NL>>, <<" ", "b", " ", NL>>>> }

InitIds ==
    /\ pc = "input"
    /\ unified = <<>> /\ hunks = <<>> /\ heuristics = NoHeuristics
    /\ \E p \in IdPairs : left_text = p[1] /\ right_text = p[2]
    /\ n_context = 3
    /\ strip_ws = FALSE
    /\ rec = None
    /\ clock = StartClock
    /\ made = <<>>
    /\ SaveIdle

\* lines 326-328: another click on "Compare & Build JSON" runs the script
\* again, with the texts the two sides hold then
Rerun ==
    /\ pc = "built"
    /\ Len(made) < MaxCalls
    /\ \E p \in IdPairs : left_text' = p[1] /\ right_text' = p[2]
    /\ pc' = "input"
    /\ UNCHANGED <<parseVars, n_context, strip_ws, rec, idVars, saveVars>>

\* a second passes on the clock that time.strftime reads
Tick ==
    /\ clock < MaxClock
    /\ clock' = clock + 1
    /\ UNCHANGED <<pc, parseVars, recordVars, made, saveVars>>

NextIds == MakeChangeRecord \/ Rerun \/ Tick

SpecIds == InitIds /\ [][NextIds]_vars

-----------------------------------------------------------------------------
(* Specification of successive calls of save_jsonl on one file             *)

MaxBatch == 2
MaxSaved == 4

\* pairs of texts whose records have a diff of several lines, strings with
\* quotes, backslashes and tabs, no difference at all, and a numeric
\* assignment whose old value is beyond the largest double
SavePairs ==
    { <<<<"a", NL>>, <<"a", NL, " ", "b", " ", NL>>>>,
      <<<<"s", " ", "=", " ", "\"", "q", "\\", "t", TAB, "\"", NL>>, <<"s", " ", "=", " ", "'", "q", "'", NL>>>>,
      <<<<"a", NL>>, <<"a", NL>>>>,
      <<<<"x", " ", "=", " ">> \o [i \in 1..Len(OverflowDigits) |-> "9"] \o <<NL>>,
        <<"x", " ", "=", " ", "1", NL>>>> }

\* the records of these pairs, as make_change_record returns them
SaveRecords ==
    { make_change_record(p[1], p[2], S_left_txt, S_right_txt, 3, FALSE, StartClock,
                         CHOOSE u \in UuidPool : TRUE) : p \in SavePairs }

InitSave ==
    /\ pc = "idle"
    /\ unified = <<>> /\ hunks = <<>> /\ heuristics = NoHeuristics
    /\ RecordIdle

\* a call save_jsonl(records, path) that returns
SaveJsonl ==
    /\ \E records \in SeqsUpTo(SaveRecords, MaxBatch) :
          /\ Len(saved) + Len(records) <= MaxSaved
          /\ target' = save_jsonl(records, target)
          /\ saved' = saved \o records
    /\ UNCHANGED <<pc, parseVars, recordVars, idVars, writers>>

NextSave == SaveJsonl

SpecSave == InitSave /\ [][NextSave]_vars

-----------------------------------------------------------------------------
(* Specification of concurrent calls of save_jsonl on one file             *)

PartialWrite == 120

\* the records the callers append
ConcRecords ==
    { make_change_record(p[1], p[2], S_left_txt, S_right_txt, 3, FALSE, StartClock,
                         CHOOSE u \in UuidPool : TRUE) :
        p \in { <<<<"a", NL>>, <<"a", NL, " ", "b", " ", NL>>>>, <<<<"s", " ", "=", " ", "\"", "q", "\\", "t", TAB, "\"", NL>>, <<"s", " ", "=", " ", "'", "q", "'", NL>>>> } }

InitConc ==
    /\ pc = "idle"
    /\ unified = <<>> /\ hunks = <<>> /\ heuristics = NoHeuristics
    /\ RecordIdle

\* lines 267-269: caller c opens the file for appending and writes the line
\* of its record to f, which holds it until it hands it to the system
OpenAndWrite(c) ==
    /\ writers[c].pc = "idle"
    /\ \E r \in ConcRecords :
          /\ writers' = [writers EXCEPT ![c] = [pc |-> "open", pending |-> written(<<r>>)]]
          /\ saved' = Append(saved, r)
    /\ UNCHANGED <<pc, parseVars, recordVars, idVars, target>>

\* f hands what it holds to the system in one write call; the system puts
\* at the end of the file all of it, or a part of it only (a short write,
\* or a file system that does not append in one step), and f calls write
\* again for the rest.  No lock is held between two write calls.
WriteSome(c) ==
    /\ writers[c].pc = "open"
    /\ writers[c].pending # <<>>
    /\ \E n \in {Len(writers[c].pending)}
                \cup {k \in {PartialWrite} : k < Len(writers[c].pending)} :
          /\ target' = target \o SubSeq(writers[c].pending, 1, n)
          /\ writers' = [writers EXCEPT
                            ![c].pending = SubSeq(@, n + 1, Len(@))]
    /\ UNCHANGED <<pc, parseVars, recordVars, idVars, saved>>

\* line 267: the end of the with block closes f, all written
Close(c) ==
    /\ writers[c].pc = "open"
    /\ writers[c].pending = <<>>
    /\ writers' = [writers EXCEPT ![c].pc = "done"]
    /\ UNCHANGED <<pc, parseVars, recordVars, idVars, target, saved>>

NextConc == \E c \in Callers : OpenAndWrite(c) \/ WriteSome(c) \/ Close(c)

SpecConc == InitConc /\ [][NextConc]_vars

-----------------------------------------------------------------------------
(* Claims about parse_unified_diff                                         *)

Lines == splitlines(unified)
IsMarkLine(l) == startswith(l, HunkMark)

\* The header pattern as the specification writes it,
\* "@@ -<old_start>[,<old_len>] +<new_start>[,<new_len>] @@" at the start of
\* the line: a comma is there only together with the digits of a length.
PatternFields(line) ==
    IF ~startswith(line, <<"@", "@", " ", "-">>) THEN NoMatch
    ELSE
    LET n1 == DigitRun(line, 5)
        has2 == 5 + n1 <= Len(line) /\ line[5 + n1] = ","
        n2 == IF has2 THEN DigitRun(line, 6 + n1) ELSE 0
        q  == IF has2 THEN 6 + n1 + n2 ELSE 5 + n1
        n3 == DigitRun(line, q + 2)
        has4 == q + 2 + n3 <= Len(line) /\ line[q + 2 + n3] = ","
        n4 == IF has4 THEN DigitRun(line, q + 3 + n3) ELSE 0
        e  == IF has4 THEN q + 3 + n3 + n4 ELSE q + 2 + n3
    IN  IF /\ n1 >= 1 /\ (has2 => n2 >= 1)
           /\ startswith(From(line, q), <<" ", "+">>)
           /\ n3 >= 1 /\ (has4 => n4 >= 1)
           /\ startswith(From(line, e), <<" ", "@", "@">>)
        THEN [ok |-> TRUE,
              f |-> << IntOf(SubSeq(line, 5, 4 + n1)),
                       IF has2 THEN IntOf(SubSeq(line, 6 + n1, 5 + n1 + n2)) ELSE 1,
                       IntOf(SubSeq(line, q + 2, q + 1 + n3)),
                       IF has4 THEN IntOf(SubSeq(line, q + 3 + n3, q + 2 + n3 + n4)) ELSE 1 >>]
        ELSE NoMatch

MatchesPattern(l) == PatternFields(l).ok
HunkFields(h) == <<h.old_start, h.old_len, h.new_start, h.new_len>>

\* C7: parse_unified_diff returns one hunk for each line that matches the
\* header pattern, in input order, an omitted length read as 1; a "@@ " line
\* that does not match the pattern gives no hunk; what stands before the
\* first header gives no hunk and no operation; the empty text gives no hunk.
C7_OneHunkPerPatternLine ==
    pc = "parsed" =>
        LET lines == Lines
            pat == SelectSeq(lines, MatchesPattern)
            heads == {i \in 1..Len(lines) : MatchesPattern(lines[i])}
        IN  /\ Len(hunks) = Len(pat)
            /\ \A k \in 1..Len(hunks) : HunkFields(hunks[k]) = PatternFields(pat[k]).f
            /\ hunks = ParseFrom(lines, IF heads = {} THEN Len(lines) + 1 ELSE Min(heads), <<>>)
            /\ (unified = <<>> => hunks = <<>>)

\* The lines the code takes for a header: it starts with "@@ " and the
\* code's expression matches it.
WellFormed(l) == IsMarkLine(l) /\ HeaderMatch(l).ok
\* the positions of the well-formed headers among lines, in order
HeaderIdx(lines) ==
    SelectSeq([i \in 1..Len(lines) |-> i], LAMBDA i : WellFormed(lines[i]))
\* the first line after p that starts with "@@ ", well-formed or not
BodyEnd(lines, p) ==
    LET later == {j \in (p + 1)..Len(lines) : IsMarkLine(lines[j])}
    IN  IF later = {} THEN Len(lines) + 1 ELSE Min(later)
IsOpLine(l) == l # <<>> /\ l[1] \in {"-", "+", " "}
OpOfLine(l) ==
    [op |-> IF l[1] = "-" THEN "del" ELSE IF l[1] = "+" THEN "add" ELSE "ctx",
     text |-> Tail(l)]
\* the operations of the marked lines among lines a..b
OpsBetween(lines, a, b) ==
    LET marked == SelectSeq(SubSeq(lines, a, b), IsOpLine)
    IN  [i \in 1..Len(marked) |-> OpOfLine(marked[i])]
IsOld(o) == o.op \in {"ctx", "del"}
IsNew(o) == o.op \in {"ctx", "add"}

\* C10: the body of a hunk is what lies between its header and the next line
\* that starts with "@@ ", well-formed or not: the marked lines after a
\* malformed "@@ " line belong to no hunk, and an unmarked line inside a body
\* adds no operation and does not end the hunk.
C10_BodyEndsAtAnyMarkLine ==
    pc = "parsed" =>
        LET lines == Lines
            heads == HeaderIdx(lines)
        IN  /\ Len(hunks) = Len(heads)
            /\ \A k \in 1..Len(hunks) :
                 LET ops == OpsBetween(lines, heads[k] + 1, BodyEnd(lines, heads[k]) - 1)
                 IN  /\ hunks[k].ops = ops
                     /\ hunks[k].old_snippet = Join(<<NL>>, OpTextsOf(SelectSeq(ops, IsOld)))
                     /\ hunks[k].new_snippet = Join(<<NL>>, OpTextsOf(SelectSeq(ops, IsNew)))

\* a hunk whose body holds an unmarked line followed by an operation and is
\* ended by a malformed "@@ " line that a marked line follows
C10_Witness ==
    /\ pc = "parsed"
    /\ LET lines == Lines
           heads == HeaderIdx(lines)
       IN  \E k \in 1..Len(heads) :
             LET p == heads[k]
                 e == BodyEnd(lines, p)
             IN  /\ e < Len(lines)
                 /\ ~WellFormed(lines[e])
                 /\ IsOpLine(lines[e + 1])
                 /\ \E i \in (p + 1)..(e - 2) : ~IsOpLine(lines[i]) /\ IsOpLine(lines[i + 1])
                 /\ hunks[k].ops # <<>>

-----------------------------------------------------------------------------
(* Specification of simple_heuristics on arbitrary hunk sequences          *)

MaxOps == 3

\* operations with numeric assignments
NumericOpPool ==
    { [op |-> "del", text |-> <<"x", " ", "=", " ", "5">>],
      [op |-> "del", text |-> <<"y", "=", "-", "1">>],
      [op |-> "del", text |-> <<"x", " ", "=", " ", "5", ".">>],
      [op |-> "add", text |-> <<"x", " ", "=", " ", "2">>],
      [op |-> "add", text |-> <<"x", "=", "5", ".", "0", " ", "#", "c">>],
      [op |-> "add", text |-> <<"y", " ", "=", " ", "7">>],
      [op |-> "ctx", text |-> <<"x", " ", "=", " ", "9">>] }

\* operations with and without the to-do markers
TodoOpPool ==
    { [op |-> "add", text |-> <<"x", " ", "t", "o", "d", "o", "s">>],
      [op |-> "add", text |-> <<"#", " ", "T", "O", "D", "O", ":", " ", "y">>],
      [op |-> "add", text |-> <<"f", "i", "x", "m", "e", "_", "1">>],
      [op |-> "del", text |-> <<"t", "o", "d", "o">>],
      [op |-> "ctx", text |-> <<"F", "I", "X", "M", "E">>] }

\* a hunk as parse_unified_diff builds it, with the operations ops
MkHunk(ops) ==
    [old_start |-> 1, old_len |-> Len(SelectSeq(ops, IsOld)),
     new_start |-> 1, new_len |-> Len(SelectSeq(ops, IsNew)),
     ops |-> ops,
     old_snippet |-> Join(<<NL>>, OpTextsOf(SelectSeq(ops, IsOld))),
     new_snippet |-> Join(<<NL>>, OpTextsOf(SelectSeq(ops, IsNew)))]

\* hunk sequences with the other rules' lines, and two hunks with several
\* numeric assignments of one identifier
ExtraHunkSeqs ==
    { << MkHunk(<< [op |-> "del", text |-> <<"x", " ", "=", " ", "5">>],
                   [op |-> "del", text |-> <<"x", " ", "=", " ", "1">>],
                   [op |-> "add", text |-> <<"x", " ", "=", " ", "2">>],
                   [op |-> "add", text |-> <<"x", "=", "5", ".", "0", " ", "#", "c">>] >>),
         MkHunk(<< [op |-> "add", text |-> <<"x", " ", "=", " ", "2">>],
                   [op |-> "del", text |-> <<"y", "=", "-", "1">>],
                   [op |-> "add", text |-> <<"y", " ", "=", " ", "7">>] >>) >>,
      << MkHunk(<< [op |-> "del", text |-> <<"t", "r", "y", ":">>],
                   [op |-> "del", text |-> <<"a", "s", "s", "e", "r", "t", " ", "x">>],
                   [op |-> "del", text |-> <<"l", "o", "g", "g", "e", "r", ".", "i", "n", "f", "o">>],
                   [op |-> "del", text |-> <<"c", "a", "t", "a", "l", "o", "g">>],
                   [op |-> "del", text |-> <<"P", "a", "s", "s", "w", "o", "r", "d", " ", "=", " ", "1">>],
                   [op |-> "add", text |-> <<"p", "a", "s", "s", "w", "o", "r", "d", "=", "2">>],
                   [op |-> "add", text |-> <<"r", "e", "t", "r", "y", ":">>],
                   [op |-> "del", text |-> <<"l", "o", "g", " ", "=", " ", "1">>] >>) >> }

HunkSeqsOf(opseqs) ==
    {<<MkHunk(ops)>> : ops \in opseqs}
      \cup UNION {{<<MkHunk(SubSeq(ops, 1, c)), MkHunk(SubSeq(ops, c + 1, Len(ops)))>> :
                      c \in 0..Len(ops)} : ops \in opseqs}

InitHeur ==
    /\ pc = "input"
    /\ unified = <<>>
    /\ hunks \in {<<>>} \cup ExtraHunkSeqs
                 \cup HunkSeqsOf(SeqsUpTo(NumericOpPool, MaxOps))
                 \cup HunkSeqsOf(SeqsUpTo(TodoOpPool, MaxOps))
    /\ heuristics = NoHeuristics
    /\ RecordIdle

SimpleHeuristics ==
    /\ pc = "input"
    /\ heuristics' = simple_heuristics(hunks)
    /\ pc' = "analysed"
    /\ UNCHANGED <<unified, hunks, recordVars, idVars, saveVars>>

NextHeur == SimpleHeuristics

SpecHeur == InitHeur /\ [][NextHeur]_vars

-----------------------------------------------------------------------------
(* Claims about simple_heuristics                                          *)

\* the (hunk, del position, add position) triples of a deleted and an added
\* operation of one hunk that both match the numeric-assignment pattern with
\* the same identifier
NumericPairs ==
    {t \in UNION {{<<k, i, j>> : i, j \in 1..Len(hunks[k].ops)} : k \in 1..Len(hunks)} :
        LET d == hunks[t[1]].ops[t[2]]
            a == hunks[t[1]].ops[t[3]]
        IN  /\ d.op = "del" /\ a.op = "add"
            /\ NUMERIC_ASSIGN_RE(d.text).ok /\ NUMERIC_ASSIGN_RE(a.text).ok
            /\ NUMERIC_ASSIGN_RE(d.text).g1 = NUMERIC_ASSIGN_RE(a.text).g1}

TripleLess(s, t) ==
    \/ s[1] < t[1]
    \/ s[1] = t[1] /\ s[2] < t[2]
    \/ s[1] = t[1] /\ s[2] = t[2] /\ s[3] < t[3]

RECURSIVE InOrder(_)
\* the triples of S by hunk, then del position, then add position
InOrder(S) ==
    IF S = {} THEN <<>>
    ELSE LET m == CHOOSE x \in S : \A y \in S \ {x} : TripleLess(x, y)
         IN  <<m>> \o InOrder(S \ {m})

PairKey(t) == NUMERIC_ASSIGN_RE(hunks[t[1]].ops[t[2]].text).g1
PairOld(t) == float(NUMERIC_ASSIGN_RE(hunks[t[1]].ops[t[2]].text).g2)
PairNew(t) == float(NUMERIC_ASSIGN_RE(hunks[t[1]].ops[t[3]].text).g2)
FlagsWith(prefix) == {f \in Range(heuristics.risk_flags) : startswith(f, prefix)}

\* C3: numeric_changes holds one entry {key, old, new} for each del/add pair
\* of the same hunk with matching lines and the same identifier, by hunk, then
\* del, then add, with no deduplication and no pairing across hunks;
\* reduced_<key> is raised iff some pair has new < old, increased_<key> iff
\* some pair has new > old, and a pair with new = old raises nothing.
C3_NumericChangesPerPair ==
    pc = "analysed" =>
        LET pairs == InOrder(NumericPairs)
        IN  /\ heuristics.numeric_changes =
                 [n \in 1..Len(pairs) |->
                    [key |-> PairKey(pairs[n]), old |-> PairOld(pairs[n]),
                     new |-> PairNew(pairs[n])]]
            /\ FlagsWith(F_reduced) =
                 {F_reduced \o PairKey(t) :
                    t \in {u \in NumericPairs : FloatLess(PairNew(u), PairOld(u))}}
            /\ FlagsWith(F_increased) =
                 {F_increased \o PairKey(t) :
                    t \in {u \in NumericPairs : FloatLess(PairOld(u), PairNew(u))}}

\* two entries of one key from one hunk, one of them with new = old and one
\* with new < old, and a matching add of the same key left unpaired in
\* another hunk
C3_Witness ==
    /\ pc = "analysed"
    /\ \E s, t \in NumericPairs :
         /\ s # t /\ s[1] = t[1] /\ PairKey(s) = PairKey(t)
         /\ PairNew(s) = PairOld(s)
         /\ FloatLess(PairNew(t), PairOld(t))
         /\ \E k \in 1..Len(hunks) : \E j \in 1..Len(hunks[k].ops) :
              /\ k # s[1]
              /\ hunks[k].ops[j].op = "add"
              /\ NUMERIC_ASSIGN_RE(hunks[k].ops[j].text).ok
              /\ NUMERIC_ASSIGN_RE(hunks[k].ops[j].text).g1 = PairKey(s)
    /\ Len(heuristics.numeric_changes) >= 2

AllOps == UNION {Range(hunks[k].ops) : k \in 1..Len(hunks)}

\* "todo" or "fixme" stands in s as a word of its own: no letter, digit or
\* underscore next to it
HasMarkerWord(s) ==
    \E w \in {S_todo, S_fixme} : \E i \in 1..Len(s) :
        /\ i + Len(w) - 1 <= Len(s)
        /\ SubSeq(s, i, i + Len(w) - 1) = w
        /\ (i = 1 \/ ~IsWordChar(s[i - 1]))
        /\ (i + Len(w) > Len(s) \/ ~IsWordChar(s[i + Len(w)]))

HasMarkerSubstring(s) == Contains(s, S_todo) \/ Contains(s, S_fixme)

\* C4 as claimed: todo_added is raised whenever an added operation's
\* lowercased text contains "todo" or "fixme" as a substring, and never
\* because of a del or ctx operation.
C4_TodoAddedOnSubstring ==
    pc = "analysed" =>
        (F_todo_added \in Range(heuristics.risk_flags)
            <=> \E o \in AllOps : o.op = "add" /\ HasMarkerSubstring(lower(o.text)))

\* C4 as amended: todo_added is raised exactly when an added operation's
\* lowercased text contains "todo" or "fixme" as a whole word, and never
\* because of a del or ctx operation.
C4_TodoAddedOnWholeWord ==
    pc = "analysed" =>
        (F_todo_added \in Range(heuristics.risk_flags)
            <=> \E o \in AllOps : o.op = "add" /\ HasMarkerWord(lower(o.text)))

\* the flag is raised by an added line with the marker in upper case, next
\* to a deleted line with the marker
C4_Witness ==
    /\ pc = "analysed"
    /\ F_todo_added \in Range(heuristics.risk_flags)
    /\ \E o \in AllOps : o.op = "add" /\ HasMarkerWord(lower(o.text)) /\ ~HasMarkerWord(o.text)
    /\ \E o \in AllOps : o.op = "del" /\ HasMarkerWord(lower(o.text))

-----------------------------------------------------------------------------
(* Claims about make_change_record                                         *)

\* the lines to_lines gives for a text, the newline at the end of each
\* taken off
BareLines(ls) == [i \in 1..Len(ls) |-> SubSeq(ls[i], 1, Len(ls[i]) - 1)]
LeftLines == BareLines(to_lines(left_text, strip_ws))
RightLines == BareLines(to_lines(right_text, strip_ws))

\* the lines at the 1-based positions start .. start+len-1 of ls, and no
\* sequence of lines at all when ls has no such positions
Span(ls, start, len) ==
    IF len = 0 THEN <<>>
    ELSE IF start >= 1 /\ start + len - 1 <= Len(ls) THEN SubSeq(ls, start, start + len - 1)
    ELSE None

OldTexts(h) == OpTextsOf(SelectSeq(h.ops, IsOld))
NewTexts(h) == OpTextsOf(SelectSeq(h.ops, IsNew))

\* C1: in the record of any two texts, for any number of context lines and
\* with or without stripping, the ctx and del texts of every hunk are the
\* left lines old_start .. old_start+old_len-1, the ctx and add texts are the
\* right lines new_start .. new_start+new_len-1 (no line when the length is
\* 0), and the two snippets are these texts joined by newlines.
C1_HunksRoundTrip ==
    pc = "built" =>
        \A k \in 1..Len(rec.hunks) :
            LET h == rec.hunks[k]
            IN  /\ OldTexts(h) = Span(LeftLines, h.old_start, h.old_len)
                /\ NewTexts(h) = Span(RightLines, h.new_start, h.new_len)
                /\ h.old_snippet = Join(<<NL>>, OldTexts(h))
                /\ h.new_snippet = Join(<<NL>>, NewTexts(h))

\* a record with two hunks, one of them with context, deleted and added
\* lines, of texts that stripping changes
C1_Witness ==
    /\ pc = "built" /\ strip_ws
    /\ LeftLines # splitlines(left_text)
    /\ Len(rec.hunks) >= 2
    /\ \E k \in 1..Len(rec.hunks) :
          {rec.hunks[k].ops[i].op : i \in 1..Len(rec.hunks[k].ops)} = {"ctx", "del", "add"}

\* C2: the record of a text with itself has the three similarities 1.0, the
\* sentinel as unified_diff, no hunk and empty heuristics.
C2_SameTextNoDifference ==
    (pc = "built" /\ left_text = right_text) =>
        /\ rec.stats.char_similarity = FOne
        /\ rec.stats.line_similarity = FOne
        /\ rec.stats.token_jaccard = FOne
        /\ rec.unified_diff = S_no_differences
        /\ rec.hunks = <<>>
        /\ rec.heuristics = NoHeuristics

\* a text of several lines, with lines the heuristics react to, compared
\* with itself
C2_Witness ==
    /\ pc = "built" /\ left_text = right_text
    /\ Len(splitlines(left_text)) >= 2
    /\ Contains(lower(left_text), S_todo) /\ Contains(left_text, S_password)
    /\ rec.unified_diff = S_no_differences

\* round((1 - x) * 100, 2) of a stored similarity x, in hundredths
HundredthsFrom(x) == PyRound(FMul(FSubFrom1(x), 100), 2)

\* C9 as stated: percent_different_estimate is round((1 - char_similarity)
\* * 100, 2) of the char_similarity stored in the same record.
C9_PercentFromStoredSimilarity ==
    pc = "built" =>
        rec.stats.percent_different_estimate
            = round(FMul(FSubFrom1(rec.stats.char_similarity), 100), 2)

\* C9 as the code has it: percent_different_estimate is round((1 - r) * 100,
\* 2) of the ratio r before it is rounded to the stored char_similarity, and
\* it is at most 0.01 away from the value computed from the stored one.
C9_PercentFromUnroundedRatio ==
    pc = "built" =>
        LET r == ratio(left_text, right_text)
            d == PyRound(rec.stats.percent_different_estimate, 2)
                   - HundredthsFrom(rec.stats.char_similarity)
        IN  /\ rec.stats.char_similarity = round(r, 4)
            /\ rec.stats.percent_different_estimate = round(FMul(FSubFrom1(r), 100), 2)
            /\ d \in {-1, 0, 1}

\* a record whose estimate is not the one its stored char_similarity gives
C9_Witness ==
    /\ pc = "built"
    /\ rec.stats.percent_different_estimate
          # round(FMul(FSubFrom1(rec.stats.char_similarity), 100), 2)
-----------------------------------------------------------------------------
(* Claims about the ids of make_change_record                              *)

\* the first six hex digits of the uuid that call i drew
Suffix(i) == SubSeq(made[i].uuid, 1, 6)

\* C8 as stated (refuted): any two calls of make_change_record, also two
\* calls within the same clock second, return records with different ids.
C8_IdsAllDifferent ==
    \A i, j \in 1..Len(made) : i # j => made[i].id # made[j].id

\* C8, amended: two calls return the same id exactly when they are made in
\* the same clock second and the uuids they draw agree in their first six
\* hex digits; in every other case the ids differ.
C8_IdsDifferBySecondOrSuffix ==
    \A i, j \in 1..Len(made) :
        i # j => ((made[i].id = made[j].id)
                    <=> (made[i].now = made[j].now /\ Suffix(i) = Suffix(j)))

\* two calls within one clock second, one whose uuid has other first six
\* digits and one whose uuid has the same
C8_Witness ==
    /\ Len(made) = 3
    /\ made[1].now = made[2].now /\ made[2].now = made[3].now
    /\ Suffix(1) # Suffix(2) /\ made[1].id # made[2].id
    /\ Suffix(1) = Suffix(3) /\ made[1].uuid # made[3].uuid
    /\ rec.id = made[3].id

-----------------------------------------------------------------------------
(* Claims about save_jsonl                                                 *)

\* the lines of a file content s: its parts that a "\n" ends and, if the
\* content does not end with "\n", what follows the last one
FileLinesAt(s, ends) ==
    [k \in 1..(Len(ends) + (IF (ends = <<>> /\ s # <<>>)
                                \/ (ends # <<>> /\ ends[Len(ends)] < Len(s))
                             THEN 1 ELSE 0)) |->
        SubSeq(s, IF k = 1 THEN 1 ELSE ends[k - 1] + 1,
                  IF k <= Len(ends) THEN ends[k] - 1 ELSE Len(s))]

FileLines(s) == FileLinesAt(s, SelectSeq([i \in 1..Len(s) |-> i], LAMBDA i : s[i] = NL))

\* The grammar of JSON (RFC 8259), as a recogniser: each XEnd(s, i) is the
\* position after the X that starts at position i of s, or 0 if there is
\* none.

IsJsonWs(c) == c \in {" ", TAB, NL, CR}
SkipWs(s, i) == i + RunUpTo(s, i, {j \in i..Len(s) : ~IsJsonWs(s[j])})
IsHex(c) == c \in Digit \cup {"a", "b", "c", "d", "e", "f", "A", "B", "C", "D", "E", "F"}

\* the number of backslashes just before position j, from position lo on
BackslashesBefore(s, lo, j) ==
    CHOOSE k \in 0..(j - lo) :
        /\ j - 1 - k < lo \/ s[j - 1 - k] # "\\"
        /\ \A m \in 0..(k - 1) : s[j - 1 - m] = "\\"

\* position p is inside the string that starts at i and ends at the quote q:
\* no control character, and a backslash that is not itself escaped starts
\* one of the escapes of the grammar
StringCharOk(s, i, q, p) ==
    /\ s[p] \notin {NL, CR, TAB, FF}
    /\ (s[p] = "\\" /\ BackslashesBefore(s, i + 1, p) % 2 = 0)
         => \/ s[p + 1] \in {"\"", "\\", "/", "b", "f", "n", "r", "t"}
            \/ /\ s[p + 1] = "u"
               /\ p + 5 < q
               /\ \A h \in (p + 2)..(p + 5) : IsHex(s[h])

StringEnd(s, i) ==
    LET closers == {j \in (i + 1)..Len(s) :
                       s[j] = "\"" /\ BackslashesBefore(s, i + 1, j) % 2 = 0}
    IN  IF closers = {} THEN 0
        ELSE LET q == CHOOSE j \in closers : \A k \in closers : j <= k
             IN  IF \A p \in (i + 1)..(q - 1) : StringCharOk(s, i, q, p)
                 THEN q + 1 ELSE 0

\* -? (0 | [1-9][0-9]*) (\.[0-9]+)? ([eE][+-]?[0-9]+)?
NumberEnd(s, i) ==
    LET p1 == IF s[i] = "-" THEN i + 1 ELSE i
        p2 == IF p1 > Len(s) \/ s[p1] \notin Digit THEN 0
              ELSE IF s[p1] = "0" THEN p1 + 1
              ELSE p1 + DigitRun(s, p1)
        p3 == IF p2 = 0 THEN 0
              ELSE IF p2 <= Len(s) /\ s[p2] = "."
              THEN (IF DigitRun(s, p2 + 1) >= 1 THEN p2 + 1 + DigitRun(s, p2 + 1) ELSE 0)
              ELSE p2
        p4 == IF p3 # 0 /\ p3 + 1 <= Len(s) /\ s[p3 + 1] \in {"+", "-"}
              THEN p3 + 2 ELSE p3 + 1
    IN  IF p3 = 0 THEN 0
        ELSE IF p3 <= Len(s) /\ s[p3] \in {"e", "E"}
        THEN (IF DigitRun(s, p4) >= 1 THEN p4 + DigitRun(s, p4) ELSE 0)
        ELSE p3

LiteralEnd(s, i, lit) ==
    IF i + Len(lit) - 1 <= Len(s) /\ SubSeq(s, i, i + Len(lit) - 1) = lit
    THEN i + Len(lit) ELSE 0

RECURSIVE ValueEnd(_, _), ElementsEnd(_, _), MembersEnd(_, _)

ValueEnd(s, i) ==
    IF i > Len(s) THEN 0
    ELSE IF s[i] = "\"" THEN StringEnd(s, i)
    ELSE IF s[i] = "[" THEN
        (IF SkipWs(s, i + 1) <= Len(s) /\ s[SkipWs(s, i + 1)] = "]"
         THEN SkipWs(s, i + 1) + 1
         ELSE ElementsEnd(s, SkipWs(s, i + 1)))
    ELSE IF s[i] = "{" THEN
        (IF SkipWs(s, i + 1) <= Len(s) /\ s[SkipWs(s, i + 1)] = "}"
         THEN SkipWs(s, i + 1) + 1
         ELSE MembersEnd(s, SkipWs(s, i + 1)))
    ELSE IF s[i] = "t" THEN LiteralEnd(s, i, <<"t", "r", "u", "e">>)
    ELSE IF s[i] = "f" THEN LiteralEnd(s, i, <<"f", "a", "l", "s", "e">>)
    ELSE IF s[i] = "n" THEN LiteralEnd(s, i, <<"n", "u", "l", "l">>)
    ELSE IF s[i] = "-" \/ s[i] \in Digit THEN NumberEnd(s, i)
    ELSE 0

\* value (, value)* ] from the first value on
ElementsEnd(s, i) ==
    LET e == ValueEnd(s, i)
        j == SkipWs(s, e)
    IN  IF e = 0 \/ j > Len(s) THEN 0
        ELSE IF s[j] = "]" THEN j + 1
        ELSE IF s[j] = "," THEN ElementsEnd(s, SkipWs(s, j + 1))
        ELSE 0

\* string : value (, string : value)* } from the first string on
MembersEnd(s, i) ==
    LET k == IF i <= Len(s) /\ s[i] = "\"" THEN StringEnd(s, i) ELSE 0
        c == SkipWs(s, k)
        e == IF k = 0 \/ c > Len(s) \/ s[c] # ":" THEN 0 ELSE ValueEnd(s, SkipWs(s, c + 1))
        j == SkipWs(s, e)
    IN  IF e = 0 \/ j > Len(s) THEN 0
        ELSE IF s[j] = "}" THEN j + 1
        ELSE IF s[j] = "," THEN MembersEnd(s, SkipWs(s, j + 1))
        ELSE 0

\* s is, on its own, one JSON object
IsJsonObject(s) ==
    /\ SkipWs(s, 1) <= Len(s)
    /\ s[SkipWs(s, 1)] = "{"
    /\ ValueEnd(s, SkipWs(s, 1)) # 0
    /\ SkipWs(s, ValueEnd(s, SkipWs(s, 1))) = Len(s) + 1

\* C5 as stated (refuted): after any sequence of save_jsonl calls on an
\* empty file, the file has one line for each record passed, the i-th line
\* is the serialization of the i-th record in call order and list order,
\* and each line is on its own a complete JSON object.
C5_EachLineIsJsonObject ==
    /\ Len(FileLines(target)) = Len(saved)
    /\ \A i \in 1..Len(saved) :
          /\ FileLines(target)[i] = json_dumps(saved[i])
          /\ IsJsonObject(FileLines(target)[i])

\* C5, the part about the number and the order of the lines: one line for
\* each record, the i-th the serialization of the i-th record, each ended
\* by a newline.
C5_OneLinePerRecordInOrder ==
    /\ Len(FileLines(target)) = Len(saved)
    /\ \A i \in 1..Len(saved) : FileLines(target)[i] = json_dumps(saved[i])
    /\ target # <<>> => target[Len(target)] = NL

\* C5, the part about earlier lines: a call leaves what the file holds in
\* place and writes after it.
C5_AppendOnly ==
    [][Len(target') >= Len(target) /\ SubSeq(target', 1, Len(target)) = target]_vars

\* a float that is no finite number
IsInfinite(x) == x.d = 0

\* two calls have returned, and a record with an infinite old value is in
\* the file, another record after it
C5_Witness ==
    /\ Len(saved) >= 3
    /\ \E i \in 1..(Len(saved) - 1) :
          \E k \in 1..Len(saved[i].heuristics.numeric_changes) :
              IsInfinite(saved[i].heuristics.numeric_changes[k].old)
    /\ \E i \in 1..Len(saved) : saved[i].hunks = <<>>

\* every caller has closed its file
AllDone == \A c \in Callers : writers[c].pc = "done"

\* C6 as stated (refuted): when several callers run save_jsonl at the same
\* time on one file, then in every interleaving each line of the file is
\* the complete serialization of exactly one record and no record is lost.
C6_LinesAreWholeRecords ==
    AllDone =>
        /\ Len(FileLines(target)) = Len(saved)
        /\ \E f \in [1..Len(saved) -> 1..Len(saved)] :
              /\ \A i, j \in 1..Len(saved) : i # j => f[i] # f[j]
              /\ \A i \in 1..Len(saved) : FileLines(target)[f[i]] = json_dumps(saved[i])

\* C6, what holds in every interleaving: no character is lost, the file
\* has as many characters as the lines of the records passed.
C6_NoCharacterLost ==
    AllDone => Len(target) = Len(written(saved))

\* two callers are inside save_jsonl at the same time, each with a part of
\* its line in the file and the rest still to write
C6_Witness ==
    \E c, d \in Callers :
        /\ c # d
        /\ writers[c].pc = "open" /\ writers[d].pc = "open"
        /\ writers[c].pending # <<>> /\ writers[d].pending # <<>>
        /\ Len(target) >= 2 * PartialWrite

====
